---- MODULE Spec2Model ----
(***************************************************************************)
(* MoodlewareAPI: the Redis-backed session store (mw_utils/session.py) and *)
(* the one-time-token routes of the office preview (routes/                *)
(* office_preview.py), as a state machine.                                 *)
(*                                                                         *)
(* Every request runs on its own task (a member of Procs).  A task         *)
(* suspends exactly at its awaits on the Redis backend and on upstream, so *)
(* one action is the code between two awaits together with the backend     *)
(* command the second await sends.  The clock (now) may advance, and the   *)
(* backend may fail or recover, between any two actions.                   *)
(***************************************************************************)
EXTENDS Integers, FiniteSets, Sequences, TLC

----------------------------------------------------------------------------
(* Bounds of the model *)

\* seconds the clock advances per Tick
TickStep == 20
\* last instant of the clock
MaxTime == 60
\* number of sessions create_session is called for in the session store on its own
MaxSessions == 2
\* number of sessions create_session is called for next to the one-time tokens
MaxIssuers == 1
\* number of one-time tokens generate_one_time_token draws
MaxTokens == 1
\* number of concurrent request tasks
NProcs == 2
\* longest element of a list of strings, in characters
MaxElemLen == 2
\* longest list of strings, in elements
MaxElems == 2
\* longest str of the exhaustively drawn strings, in characters
MaxStrLen == 3
\* longest path of a file request, in segments
MaxSegments == 3

Procs == 1..NProcs
SessionIds == 1..MaxSessions
TokenIds == 1..MaxTokens
\* a token value that generate_one_time_token never drew
UnknownToken == MaxTokens + 1

\* upstream credentials and base URLs a login can put into a session
MoodleTokens == {"wsA", "wsB"}
MoodleUrls == {"https://moodle.a"}
\* file_path values of GenerateTokenRequest (any str, the empty one included)
FilePaths == {"", "/pluginfile.php/1/a.docx"}

----------------------------------------------------------------------------
(* Program constants *)

\* SESSION_MAX_AGE, read from the environment: here configured to 40 seconds
SESSION_MAX_AGE == 40
\* variant: the expiry given in minutes is taken for seconds
TOKEN_EXPIRY_TENFOLD == 60 * 10
TOKEN_EXPIRY_SECONDS == 60
\* the serializer's signing key
SECRET_KEY == 7
\* Redis reports -1 as the TTL of a key that has no expiry
NO_EXPIRY == -1

VARIABLES
    now,            \* time.time(), in seconds
    redis_client,   \* "none": _redis_client is None; "up" / "down": the backend answers / fails
    http_client,    \* office_preview._http_client is set
    session_store,  \* Redis keys session:<id>
    ot_store,       \* Redis keys ot_token:<token>
    next_sid,       \* next value of secrets.token_urlsafe in create_session
    next_tok,       \* next value of secrets.token_urlsafe in generate_one_time_token
    pc,             \* per task: the await it is suspended at
    req,            \* per task: the locals of the running handler
    resp,           \* the outcome of the call that returned in the last step, if any
    created,        \* history: what create_session was called with, per session id
    issued,         \* history: what generate_one_time_token stored, per token
    fetched,        \* history: number of upstream fetches started, per token
    call,           \* the arguments of the encode_param call under way, if any
    params,         \* the upstream parameter set that encode_param writes into
    dispatch,       \* the dispatcher invocation under way: its configuration and request
    outbound,       \* history: the upstream calls the dispatcher issued, in order
    reply           \* the answer of the dispatcher invocation, if any

\* the state of the dispatcher
dispatch_vars == <<dispatch, outbound, reply>>

\* the state of the stateless components (parameter encoder, dispatcher)
pure_vars == <<call, params, dispatch, outbound, reply>>

vars == <<now, redis_client, http_client, session_store, ot_store, next_sid, next_tok,
          pc, req, resp, created, issued, fetched, call, params, dispatch, outbound,
          reply>>

----------------------------------------------------------------------------
(* The signed envelope: URLSafeTimedSerializer(SECRET_KEY) *)

\* the HMAC over payload and timestamp under the key
Signature(key, sid, ts) == key + 1000 * sid + ts

\* serializer.dumps(session_id) at time t
dumps(sid, t) == [sid |-> sid, ts |-> t, mac |-> Signature(SECRET_KEY, sid, t)]

\* a value that is no envelope at all
Garbage == [sid |-> 0, ts |-> 0, mac |-> 0]

\* variant: loads without max_age, the signature alone is verified
loads_no_max_age(e, max_age, t) ==
    IF e.mac /= Signature(SECRET_KEY, e.sid, e.ts) THEN [exc |-> "BadSignature", sid |-> 0]
    ELSE [exc |-> "none", sid |-> e.sid]

\* serializer.loads(value, max_age): the signature is verified first, then the age
loads(e, max_age, t) ==
    IF e.mac /= Signature(SECRET_KEY, e.sid, e.ts) THEN [exc |-> "BadSignature", sid |-> 0]
    ELSE IF t - e.ts > max_age \/ t - e.ts < 0 THEN [exc |-> "SignatureExpired", sid |-> 0]
    ELSE [exc |-> "none", sid |-> e.sid]

----------------------------------------------------------------------------
(* The Redis backend: keys with a value and an expiry instant *)

AbsentSession == [present |-> FALSE, moodle_token |-> "", moodle_url |-> "",
                  created_at |-> 0, last_accessed |-> 0, exp |-> 0]

AbsentToken == [present |-> FALSE, file_path |-> "", moodle_url |-> "", moodle_token |-> "",
                session_id |-> 0, exp |-> 0]

\* variant: the TTL is added to the key's remaining lifetime instead of replacing it
setex_accumulate(store, key, ttl, value, t) ==
    [store EXCEPT ![key] = [present |-> TRUE, moodle_token |-> value.moodle_token,
                            moodle_url |-> value.moodle_url, created_at |-> value.created_at,
                            last_accessed |-> value.last_accessed,
                            exp |-> IF store[key].present THEN store[key].exp + ttl
                                    ELSE t + ttl]]

\* SETEX key ttl value
setex(store, key, ttl, value, t) ==
    [store EXCEPT ![key] = [present |-> TRUE, moodle_token |-> value.moodle_token,
                            moodle_url |-> value.moodle_url, created_at |-> value.created_at,
                            last_accessed |-> value.last_accessed, exp |-> t + ttl]]

\* HSET key mapping: creates the hash without expiry, or overwrites its fields
hset(store, key, m) ==
    [store EXCEPT ![key] = [present |-> TRUE, file_path |-> m.file_path,
                            moodle_url |-> m.moodle_url, moodle_token |-> m.moodle_token,
                            session_id |-> m.session_id,
                            exp |-> IF store[key].present THEN store[key].exp ELSE NO_EXPIRY]]

\* EXPIRE key seconds: no effect on a missing key
expire(store, key, ttl, t) ==
    IF store[key].present THEN [store EXCEPT ![key].exp = t + ttl] ELSE store

\* HGETALL key: the empty mapping for a missing key
hgetall(store, key) ==
    IF key \in DOMAIN store THEN store[key] ELSE AbsentToken

\* DEL key: the store without the key
delete(store, key, absent) ==
    IF key \in DOMAIN store THEN [store EXCEPT ![key] = absent] ELSE store

\* a key is gone from the instant its expiry is reached
Expired(rec, t) == rec.present /\ rec.exp /= NO_EXPIRY /\ rec.exp <= t

\* the store after the backend dropped the keys whose expiry has passed
purge(store, absent, t) ==
    [k \in DOMAIN store |-> IF Expired(store[k], t) THEN absent ELSE store[k]]

----------------------------------------------------------------------------
(* Values of the handlers *)

NoSession == [session_id |-> 0, moodle_token |-> "", moodle_url |-> "",
              created_at |-> 0, last_accessed |-> 0]

\* SessionData.__init__: last_accessed starts as created_at
SessionData(session_id, moodle_token, moodle_url, created_at) ==
    [session_id |-> session_id, moodle_token |-> moodle_token, moodle_url |-> moodle_url,
     created_at |-> created_at, last_accessed |-> created_at]

\* the locals of a task that runs no handler
IdleReq == [op |-> "none", env |-> Garbage, sid |-> 0, tok |-> 0,
            session_data |-> AbsentSession, token_data |-> AbsentToken, at |-> 0]

\* op: the call; task: who made it; exc: the exception raised inside the call;
\* raised: the exception that left the call;
\* status, detail: the HTTP answer of a route; session, envelope, deleted: the value a
\* session-store call returned; bundle: the token data a consume went on with;
\* fetch: an upstream request was sent; env, tok, at: the argument and the instant of
\* the call's first backend command
\* success: the success field of a login or logout answer; set_cookie, cookie: the
\* Set-Cookie of a login answer; moodle_token, moodle_url: what upstream authentication
\* gave the login; returned: the kind of value a dependency handed to the route body
\* ("None" when it rejected the request); media_type, cache_control: the Content-Type
\* and the Cache-Control header of a file answer; content_type: the Content-Type
\* header upstream gave
NoResp == [op |-> "none", task |-> 0, exc |-> "none", raised |-> "none",
           status |-> 0, detail |-> "",
           session |-> NoSession, envelope |-> Garbage, deleted |-> FALSE,
           bundle |-> AbsentToken, fetch |-> FALSE, env |-> Garbage, tok |-> 0, at |-> 0,
           success |-> FALSE, set_cookie |-> FALSE, cookie |-> Garbage,
           moodle_token |-> "", moodle_url |-> "", returned |-> "None",
           media_type |-> "", cache_control |-> "", content_type |-> ""]

\* get_redis(): raises while init_redis has not run
get_redis == IF redis_client = "none" THEN "RuntimeError" ELSE "none"

\* a backend command raises while the backend is unreachable
backend == IF redis_client = "down" THEN "ConnectionError" ELSE "none"

\* the envelope create_session returned for a session
EnvelopeOf(sid) == dumps(sid, created[sid].at)

\* what a client can send as cookie value: an envelope it was given, one it altered
\* (another session id, a later timestamp), or a value that is no envelope
EnvelopeInputs ==
    LET given == {EnvelopeOf(s) : s \in {x \in SessionIds : created[x].done}}
    IN  given
        \cup UNION {{[e EXCEPT !.sid = s] : s \in SessionIds \ {e.sid}} : e \in given}
        \cup {[e EXCEPT !.ts = e.ts + TickStep] : e \in given}
        \cup {Garbage}

\* what a client can send as one-time token: one a finished issue handed out, or a
\* value that was never drawn
TokenInputs == {t \in TokenIds : issued[t].ok} \cup {UnknownToken}

----------------------------------------------------------------------------
(* Python values of the parameter encoder: mw_utils/params.py *)

\* A str is the sequence of its characters.  A value is a record of one field, named
\* after its type, that holds its content: None; bool; int; float (in hundredths);
\* str; list (a sequence of values); dict (the sequence of its <<key, value>> items in
\* insertion order, the keys being str contents).
None == [none |-> 0]
BoolValue(b) == [bool |-> b]
IntValue(n) == [int |-> n]
FloatValue(h) == [float |-> h]
StrValue(s) == [str |-> s]
ListValue(items) == [list |-> items]
DictValue(items) == [dict |-> items]

\* type(x) and the content of x
T(x) == CHOOSE f \in DOMAIN x : TRUE
V(x) == x[T(x)]

\* isinstance(value, (bool, int, float)): bool is a subclass of int
IsNumber(x) == T(x) \in {"bool", "int", "float"}

\* bool(value) of a value that is no str
truthiness(x) ==
    CASE T(x) = "none" -> FALSE
      [] T(x) = "bool" -> V(x)
      [] T(x) \in {"int", "float"} -> V(x) /= 0
      [] OTHER -> Len(V(x)) > 0

UpperCase == <<"A", "B", "C", "D", "E", "F", "G", "H", "I", "J", "K", "L", "M",
               "N", "O", "P", "Q", "R", "S", "T", "U", "V", "W", "X", "Y", "Z">>
LowerCase == <<"a", "b", "c", "d", "e", "f", "g", "h", "i", "j", "k", "l", "m",
               "n", "o", "p", "q", "r", "s", "t", "u", "v", "w", "x", "y", "z">>
Digits == <<"0", "1", "2", "3", "4", "5", "6", "7", "8", "9">>
\* the characters str.strip() removes and JSON skips
Whitespace == {" ", "\t", "\n", "\r"}

IsDigit(c) == \E i \in 1..10 : Digits[i] = c
DigitValue(c) == (CHOOSE i \in 1..10 : Digits[i] = c) - 1

\* variant: lower() leaves the characters as they are
lower_unchanged(s) == s

\* str.lower()
lower(s) ==
    [i \in 1..Len(s) |->
        IF \E k \in 1..26 : UpperCase[k] = s[i]
        THEN LowerCase[CHOOSE k \in 1..26 : UpperCase[k] = s[i]]
        ELSE s[i]]

\* str.strip()
strip(s) ==
    LET keep == {i \in 1..Len(s) : s[i] \notin Whitespace}
    IN  IF keep = {} THEN <<>>
        ELSE SubSeq(s, CHOOSE i \in keep : \A j \in keep : i <= j,
                       CHOOSE i \in keep : \A j \in keep : j <= i)

\* sep in s
Contains(s, sep) == \E i \in 1..Len(s) : s[i] = sep

\* s.split(sep) for a separator of one character
RECURSIVE split(_, _)
split(s, sep) ==
    IF ~Contains(s, sep) THEN <<s>>
    ELSE LET i == CHOOSE k \in 1..Len(s) : s[k] = sep /\ \A j \in 1..(k - 1) : s[j] /= sep
         IN  <<SubSeq(s, 1, i - 1)>> \o split(SubSeq(s, i + 1, Len(s)), sep)

\* str(n) of an int
RECURSIVE str_int(_)
str_int(n) ==
    IF n < 0 THEN <<"-">> \o str_int(-n)
    ELSE IF n < 10 THEN <<Digits[n + 1]>>
    ELSE str_int(n \div 10) \o <<Digits[(n % 10) + 1]>>

----------------------------------------------------------------------------
(* json.loads, as far as the inputs go: no escapes in strings, no exponents *)

\* the result of a failed parse (json.JSONDecodeError)
JSONDecodeError == [ok |-> FALSE, val |-> None, next |-> 0]

\* a parsed value and the index after its text
Parsed(val, next) == [ok |-> TRUE, val |-> val, next |-> next]

\* the index of the first character at or after i that is no whitespace
RECURSIVE skip_ws(_, _)
skip_ws(s, i) == IF i <= Len(s) /\ s[i] \in Whitespace THEN skip_ws(s, i + 1) ELSE i

\* the index after the run of digits that starts at i
RECURSIVE digits_end(_, _)
digits_end(s, i) == IF i <= Len(s) /\ IsDigit(s[i]) THEN digits_end(s, i + 1) ELSE i

\* the number the digits s[i..j-1] denote
RECURSIVE digits_value(_, _, _)
digits_value(s, i, j) ==
    IF i >= j THEN 0 ELSE digits_value(s, i, j - 1) * 10 + DigitValue(s[j - 1])

\* a number: -?(0|[1-9][0-9]*)(\.[0-9]+)?; an int without fraction, else a float
parse_number(s, i) ==
    LET neg == s[i] = "-"
        j == IF neg THEN i + 1 ELSE i
    IN  IF j > Len(s) \/ ~IsDigit(s[j]) THEN JSONDecodeError
        ELSE LET int_end == IF s[j] = "0" THEN j + 1 ELSE digits_end(s, j)
                 whole == digits_value(s, j, int_end)
                 has_frac == /\ int_end + 1 <= Len(s)
                             /\ s[int_end] = "."
                             /\ IsDigit(s[int_end + 1])
                 frac_end == digits_end(s, int_end + 1)
                 tenths == DigitValue(s[int_end + 1])
                 hundredths == IF frac_end > int_end + 2
                               THEN DigitValue(s[int_end + 2]) ELSE 0
                 sign == IF neg THEN -1 ELSE 1
             IN  IF has_frac
                 THEN Parsed(FloatValue(sign * (whole * 100 + tenths * 10 + hundredths)),
                             frac_end)
                 ELSE Parsed(IntValue(sign * whole), int_end)

\* a string: the characters up to the next quote; control characters are rejected
parse_string(s, i) ==
    LET closing == {k \in (i + 1)..Len(s) : s[k] = "\""}
    IN  IF closing = {} THEN JSONDecodeError
        ELSE LET k == CHOOSE x \in closing : \A y \in closing : x <= y
                 text == SubSeq(s, i + 1, k - 1)
             IN  IF \E n \in 1..Len(text) : text[n] \in {"\t", "\n", "\r"}
                 THEN JSONDecodeError
                 ELSE Parsed(StrValue(text), k + 1)

\* one of the literals true, false, null
parse_literal(s, i) ==
    LET is(word) == i + Len(word) - 1 <= Len(s) /\ SubSeq(s, i, i + Len(word) - 1) = word
    IN  IF is(<<"t", "r", "u", "e">>) THEN Parsed(BoolValue(TRUE), i + 4)
        ELSE IF is(<<"f", "a", "l", "s", "e">>) THEN Parsed(BoolValue(FALSE), i + 5)
        ELSE IF is(<<"n", "u", "l", "l">>) THEN Parsed(None, i + 4)
        ELSE JSONDecodeError

\* dict[key] = value on the items of a dict: a known key keeps its place
put(items, key, value) ==
    IF \E n \in 1..Len(items) : items[n][1] = key
    THEN [n \in 1..Len(items) |-> IF items[n][1] = key THEN <<key, value>> ELSE items[n]]
    ELSE Append(items, <<key, value>>)

RECURSIVE parse_value(_, _)
RECURSIVE parse_items(_, _, _)
RECURSIVE parse_members(_, _, _)

\* the value whose text starts at i
parse_value(s, i) ==
    IF i > Len(s) THEN JSONDecodeError
    ELSE IF s[i] = "["
    THEN LET j == skip_ws(s, i + 1)
         IN  IF j <= Len(s) /\ s[j] = "]" THEN Parsed(ListValue(<<>>), j + 1)
             ELSE parse_items(s, j, <<>>)
    ELSE IF s[i] = "{"
    THEN LET j == skip_ws(s, i + 1)
         IN  IF j <= Len(s) /\ s[j] = "}" THEN Parsed(DictValue(<<>>), j + 1)
             ELSE parse_members(s, j, <<>>)
    ELSE IF s[i] = "\"" THEN parse_string(s, i)
    ELSE IF s[i] = "-" \/ IsDigit(s[i]) THEN parse_number(s, i)
    ELSE parse_literal(s, i)

\* the rest of an array whose next element starts at i
parse_items(s, i, acc) ==
    LET r == parse_value(s, i)
        j == skip_ws(s, r.next)
    IN  IF ~r.ok \/ j > Len(s) THEN JSONDecodeError
        ELSE IF s[j] = "," THEN parse_items(s, skip_ws(s, j + 1), Append(acc, r.val))
        ELSE IF s[j] = "]" THEN Parsed(ListValue(Append(acc, r.val)), j + 1)
        ELSE JSONDecodeError

\* the rest of an object whose next key starts at i
parse_members(s, i, acc) ==
    LET k == IF i <= Len(s) /\ s[i] = "\"" THEN parse_string(s, i) ELSE JSONDecodeError
        c == skip_ws(s, k.next)
        r == parse_value(s, skip_ws(s, c + 1))
        j == skip_ws(s, r.next)
    IN  IF ~k.ok \/ c > Len(s) THEN JSONDecodeError
        ELSE IF s[c] /= ":" THEN JSONDecodeError
        ELSE IF ~r.ok \/ j > Len(s) THEN JSONDecodeError
        ELSE IF s[j] = ","
        THEN parse_members(s, skip_ws(s, j + 1), put(acc, V(k.val), r.val))
        ELSE IF s[j] = "}" THEN Parsed(DictValue(put(acc, V(k.val), r.val)), j + 1)
        ELSE JSONDecodeError

\* json.loads(s): one value with nothing but whitespace around it
json_loads(s) ==
    LET r == parse_value(s, skip_ws(s, 1))
    IN  IF r.ok /\ skip_ws(s, r.next) = Len(s) + 1 THEN r ELSE JSONDecodeError

----------------------------------------------------------------------------
(* The parameter encoder: mw_utils/params.py *)

\* the outcome of a conversion that can raise
Raised(exc) == [ok |-> FALSE, exc |-> exc, val |-> None]
Converted(val) == [ok |-> TRUE, exc |-> "none", val |-> val]

\* the text of a decimal literal without its sign: digits for an int; digits with a
\* "." before, inside or after them for a float
IsIntLiteral(s) == Len(s) > 0 /\ \A i \in 1..Len(s) : IsDigit(s[i])
IsFloatLiteral(s) ==
    \/ IsIntLiteral(s)
    \/ \E d \in 1..Len(s) :
          /\ s[d] = "." /\ Len(s) > 1
          /\ \A i \in 1..Len(s) : i /= d => IsDigit(s[i])

\* a literal without its sign, and the sign
Unsigned(s) == IF Len(s) > 0 /\ s[1] \in {"-", "+"} THEN SubSeq(s, 2, Len(s)) ELSE s
Sign(s) == IF Len(s) > 0 /\ s[1] = "-" THEN -1 ELSE 1

\* the hundredths an unsigned float literal denotes
literal_hundredths(u) ==
    IF IsIntLiteral(u) THEN 100 * digits_value(u, 1, Len(u) + 1)
    ELSE LET d == CHOOSE k \in 1..Len(u) : u[k] = "."
         IN  digits_value(u, 1, d) * 100
             + (IF Len(u) > d THEN DigitValue(u[d + 1]) * 10 ELSE 0)
             + (IF Len(u) > d + 1 THEN DigitValue(u[d + 2]) ELSE 0)

\* int(value): TypeError for None and collections, ValueError for a str that is no
\* integer literal; a float is truncated towards zero
int(value) ==
    CASE T(value) = "bool" -> Converted(IntValue(IF V(value) THEN 1 ELSE 0))
      [] T(value) = "int" -> Converted(value)
      [] T(value) = "float" ->
            Converted(IntValue(IF V(value) < 0 THEN -((-V(value)) \div 100)
                               ELSE V(value) \div 100))
      [] T(value) = "str" ->
            LET s == strip(V(value))
                u == Unsigned(s)
            IN  IF IsIntLiteral(u)
                THEN Converted(IntValue(Sign(s) * digits_value(u, 1, Len(u) + 1)))
                ELSE Raised("ValueError")
      [] OTHER -> Raised("TypeError")

\* float(value)
float(value) ==
    CASE T(value) = "bool" -> Converted(FloatValue(IF V(value) THEN 100 ELSE 0))
      [] T(value) = "int" -> Converted(FloatValue(V(value) * 100))
      [] T(value) = "float" -> Converted(value)
      [] T(value) = "str" ->
            LET s == strip(V(value))
            IN  IF IsFloatLiteral(Unsigned(s))
                THEN Converted(FloatValue(Sign(s) * literal_hundredths(Unsigned(s))))
                ELSE Raised("ValueError")
      [] OTHER -> Raised("TypeError")

\* variant: the comma fallback is missing, the text is kept as one element
comma_parts_whole(s) == <<StrValue(s)>>

\* [part.strip() for part in s.split(",") if part.strip() != ""]
comma_parts(s) ==
    LET parts == split(s, ",")
        kept == SelectSeq([i \in 1..Len(parts) |-> strip(parts[i])],
                          LAMBDA part : part /= <<>>)
    IN  [i \in 1..Len(kept) |-> StrValue(kept[i])]

\* parse_list_value(raw_val)
parse_list_value(raw_val) ==
    CASE T(raw_val) = "none" -> <<>>
      [] T(raw_val) = "list" -> V(raw_val)
      [] IsNumber(raw_val) -> <<raw_val>>
      [] T(raw_val) = "str" ->
            LET s == strip(V(raw_val))
                parsed == json_loads(s)
            IN  IF s = <<>> THEN <<>>
                ELSE IF parsed.ok
                THEN IF T(parsed.val) = "list" THEN V(parsed.val) ELSE <<raw_val>>
                ELSE IF Contains(s, ",") THEN comma_parts(s)
                ELSE <<StrValue(s)>>
      [] OTHER -> <<raw_val>>

\* params[key] = value
setitem(ps, key, value) == (key :> value) @@ ps

\* the keys f"{name}[{k}]" and f"{name}[{idx}][{k}]"
Bracket(name, k) == name \o <<"[">> \o k \o <<"]">>

\* variant: the inner value is sent as it is
inner_value_unchanged(v) == v

\* "if isinstance(v, bool): v = 1 if v else 0"
inner_value(v) == IF T(v) = "bool" THEN IntValue(IF V(v) THEN 1 ELSE 0) ELSE v

\* "for k, v in item.items()" from item number n on, for the element at index idx
RECURSIVE encode_item_fields(_, _, _, _, _)
encode_item_fields(ps, name, idx, items, n) ==
    IF n > Len(items) THEN ps
    ELSE encode_item_fields(
             setitem(ps, Bracket(Bracket(name, str_int(idx)), items[n][1]),
                     inner_value(items[n][2])),
             name, idx, items, n + 1)

\* "for idx, item in enumerate(items)" from the element at index idx on
RECURSIVE encode_items(_, _, _, _)
encode_items(ps, name, items, idx) ==
    IF idx >= Len(items) THEN ps
    ELSE LET item == items[idx + 1]
         IN  encode_items(
                 IF T(item) = "dict" THEN encode_item_fields(ps, name, idx, V(item), 1)
                 ELSE setitem(ps, Bracket(name, str_int(idx)), item),
                 name, items, idx + 1)

\* variant: the fields of a keyed structure are coerced as on the list path
RECURSIVE encode_dict_coerced(_, _, _, _)
encode_dict_coerced(ps, name, items, n) ==
    IF n > Len(items) THEN ps
    ELSE encode_dict_coerced(setitem(ps, Bracket(name, items[n][1]),
                                     inner_value(items[n][2])),
                             name, items, n + 1)

\* "for k, v in value.items(): params[f"{name}[{k}]"] = v" from item number n on
RECURSIVE encode_dict(_, _, _, _)
encode_dict(ps, name, items, n) ==
    IF n > Len(items) THEN ps
    ELSE encode_dict(setitem(ps, Bracket(name, items[n][1]), items[n][2]),
                     name, items, n + 1)

\* the declared types with a branch of their own
BOOL == <<"b", "o", "o", "l">>
FLOAT == <<"f", "l", "o", "a", "t">>
DOUBLE == <<"d", "o", "u", "b", "l", "e">>
INT == <<"i", "n", "t">>
LIST == <<"l", "i", "s", "t">>
STR == <<"s", "t", "r">>
\* the strings the bool branch takes for true
TruthyWords == {<<"1">>, <<"t", "r", "u", "e">>, <<"o", "n">>, <<"y", "e", "s">>}

\* encode_param(params, name, value, declared_type): the params it leaves.  A
\* declared_type of None or "" is the empty sequence.
encode_param(ps, name, value, declared_type) ==
    LET dtype == lower(IF declared_type = <<>> THEN STR ELSE declared_type)
    IN  IF dtype = BOOL
        THEN setitem(ps, name,
                     IF T(value) = "str"
                     THEN IntValue(IF lower(strip(V(value))) \in TruthyWords THEN 1 ELSE 0)
                     ELSE IntValue(IF truthiness(value) THEN 1 ELSE 0))
        ELSE IF dtype \in {FLOAT, DOUBLE}
        THEN setitem(ps, name, IF float(value).ok THEN float(value).val ELSE value)
        ELSE IF dtype = INT
        THEN setitem(ps, name, IF int(value).ok THEN int(value).val ELSE value)
        ELSE IF dtype = LIST
        THEN encode_items(ps, name, parse_list_value(value), 0)
        ELSE IF T(value) = "dict"
        THEN encode_dict(ps, name, V(value), 1)
        ELSE setitem(ps, name, value)

\* variant: only a ValueError is caught
except_ValueError(exc) == exc = "ValueError"

\* "except Exception:" catches exc: TypeError, ValueError and json.JSONDecodeError (a
\* ValueError) are all subclasses of Exception
except_Exception(exc) == exc \in {"TypeError", "ValueError", "JSONDecodeError"}

\* the exception that leaves encode_param(params, name, value, declared_type), "none"
\* if it returns: the calls that can raise are float(value), int(value) and
\* json.loads(s), each inside a try
encode_param_raises(value, declared_type) ==
    LET dtype == lower(IF declared_type = <<>> THEN STR ELSE declared_type)
    IN  IF dtype = BOOL THEN "none"
        ELSE IF dtype \in {FLOAT, DOUBLE}
        THEN IF float(value).ok \/ except_Exception(float(value).exc) THEN "none"
             ELSE float(value).exc
        ELSE IF dtype = INT
        THEN IF int(value).ok \/ except_Exception(int(value).exc) THEN "none"
             ELSE int(value).exc
        ELSE IF dtype = LIST /\ T(value) = "str" /\ strip(V(value)) /= <<>>
        THEN IF json_loads(strip(V(value))).ok \/ except_Exception("JSONDecodeError")
             THEN "none"
             ELSE "JSONDecodeError"
        ELSE "none"

----------------------------------------------------------------------------
(* The values encode_param is called with *)

\* str.upper() and str.capitalize(), for writing the same word in another case
upper(s) ==
    [i \in 1..Len(s) |->
        IF \E k \in 1..26 : LowerCase[k] = s[i]
        THEN UpperCase[CHOOSE k \in 1..26 : LowerCase[k] = s[i]]
        ELSE s[i]]
capitalize(s) == [i \in 1..Len(s) |-> IF i = 1 THEN upper(s)[1] ELSE s[i]]

\* ",".join(parts) and its like
RECURSIVE join(_, _)
join(parts, sep) ==
    IF Len(parts) = 0 THEN <<>>
    ELSE IF Len(parts) = 1 THEN parts[1]
    ELSE parts[1] \o sep \o join(Tail(parts), sep)

\* json.dumps(value, separators=(",", ":")) of a value without floats
RECURSIVE json_dumps(_)
json_dumps(x) ==
    CASE T(x) = "none" -> <<"n", "u", "l", "l">>
      [] T(x) = "bool" -> IF V(x) THEN <<"t", "r", "u", "e">> ELSE <<"f", "a", "l", "s", "e">>
      [] T(x) = "int" -> str_int(V(x))
      [] T(x) = "str" -> <<"\"">> \o V(x) \o <<"\"">>
      [] T(x) = "list" ->
            <<"[">> \o join([i \in 1..Len(V(x)) |-> json_dumps(V(x)[i])], <<",">>) \o <<"]">>
      [] T(x) = "dict" ->
            <<"{">> \o join([i \in 1..Len(V(x)) |->
                                <<"\"">> \o V(x)[i][1] \o <<"\"", ":">> \o json_dumps(V(x)[i][2])],
                            <<",">>) \o <<"}">>

\* the sequences over a set with at most n members
RECURSIVE SeqsUpTo(_, _)
SeqsUpTo(S, n) ==
    IF n = 0 THEN {<<>>}
    ELSE SeqsUpTo(S, n - 1) \cup {Append(q, x) : q \in SeqsUpTo(S, n - 1), x \in S}

\* how a value was written down: the word or elements it stands for and the form
NoOrigin == [kind |-> "none", word |-> <<>>, elems |-> <<>>, form |-> "none"]

\* words given as the value of a bool parameter, each in three cases and four paddings
BoolWords == {<<"1">>, <<"t", "r", "u", "e">>, <<"o", "n">>, <<"y", "e", "s">>,
              <<"0">>, <<"f", "a", "l", "s", "e">>, <<"n", "o">>, <<"o", "f", "f">>,
              <<"y">>, <<"2">>, <<"t", "r", "u">>, <<>>}
Cased(word, case) ==
    CASE case = "upper" -> upper(word)
      [] case = "capital" -> capitalize(word)
      [] OTHER -> word
Padded(s, pad) ==
    CASE pad = "left" -> <<" ">> \o s
      [] pad = "right" -> s \o <<"\t">>
      [] pad = "both" -> <<" ">> \o s \o <<" ">>
      [] OTHER -> s
WordInputs ==
    {[value |-> StrValue(Padded(Cased(w, c), p)),
      origin |-> [NoOrigin EXCEPT !.kind = "word", !.word = w, !.form = c]] :
        w \in BoolWords, c \in {"lower", "upper", "capital"},
        p \in {"none", "left", "right", "both"}}

\* values that are no str: None, booleans, numbers, lists and keyed structures
ScalarInputs ==
    {[value |-> v, origin |-> NoOrigin] :
        v \in {None, BoolValue(TRUE), BoolValue(FALSE), IntValue(0), IntValue(1),
               IntValue(2), IntValue(-1), FloatValue(0), FloatValue(150),
               ListValue(<<>>), ListValue(<<IntValue(0)>>)}}

\* the elements of a list of strings: non-empty words without comma, blank, bracket
\* or quote, of at most MaxElemLen characters
ElemAlphabet == {"a", "1"}
Elements == {StrValue(w) : w \in SeqsUpTo(ElemAlphabet, MaxElemLen) \ {<<>>}}

\* the same elements as a native sequence, as a JSON array string and as a
\* comma-separated string
Written(elems, form) ==
    CASE form = "json" -> StrValue(json_dumps(ListValue(elems)))
      [] form = "csv" -> StrValue(join([i \in 1..Len(elems) |-> V(elems[i])], <<",">>))
      [] OTHER -> ListValue(elems)
ListInputs ==
    {[value |-> Written(q, f),
      origin |-> [NoOrigin EXCEPT !.kind = "list", !.elems = q, !.form = f]] :
        q \in SeqsUpTo(Elements, MaxElems), f \in {"native", "json", "csv"}}

\* keyed structures of at most two fields, with the keys id and done
KeyId == <<"i", "d">>
KeyDone == <<"d", "o", "n", "e">>
InnerValues == {IntValue(1), BoolValue(TRUE), BoolValue(FALSE), StrValue(<<"a">>), None,
                ListValue(<<BoolValue(TRUE)>>)}
Fields == {<<k, v>> : k \in {KeyId, KeyDone}, v \in InnerValues}
Structures ==
    {<<>>}
    \cup {<<f>> : f \in Fields}
    \cup {q \in {<<f, g>> : f \in Fields, g \in Fields} : q[1][1] /= q[2][1]}

\* a keyed structure as the value itself
DictInputs ==
    {[value |-> DictValue(d),
      origin |-> [NoOrigin EXCEPT !.kind = "dict", !.elems = <<DictValue(d)>>]] :
        d \in Structures}

\* a keyed structure as the first or the second element of a list, the list given as
\* a native sequence or as a JSON array string
StructInputs ==
    {[value |-> (IF f = "json" THEN StrValue(json_dumps(ListValue(q))) ELSE ListValue(q)),
      origin |-> [NoOrigin EXCEPT !.kind = "structs", !.elems = q, !.form = f]] :
        q \in {<<DictValue(d)>> : d \in Structures}
              \cup {<<IntValue(7), DictValue(d)>> : d \in Structures},
        f \in {"native", "json"}}

\* every str of at most MaxStrLen of these characters
ShortAlphabet == {"a", "1", ",", " ", "[", "]", "\""}
ShortInputs ==
    {[value |-> StrValue(s), origin |-> [NoOrigin EXCEPT !.kind = "short"]] :
        s \in SeqsUpTo(ShortAlphabet, MaxStrLen)}

\* declared types: the ones with a branch, in other cases too, "dict", and none
DeclaredTypes == {BOOL, upper(BOOL), capitalize(BOOL), FLOAT, DOUBLE, INT, LIST,
                  upper(LIST), STR, <<"d", "i", "c", "t">>, <<>>}

\* the parameter name
ParamNames == {<<"o", "p", "t", "s">>}

\* params before the call: empty, or with a parameter of another name
NoParams == [k \in {} |-> None]
PriorParams == {NoParams, (<<"w", "s">> :> StrValue(<<"x">>))}

\* no encode_param call is under way
NoCall == [state |-> "none", name |-> <<>>, value |-> None, declared_type |-> <<>>,
           origin |-> NoOrigin, prior |-> NoParams]

\* the calls of encode_param
EncoderInputs ==
    {[state |-> "called", name |-> n, value |-> i.value, declared_type |-> d,
      origin |-> i.origin, prior |-> ps] :
        n \in ParamNames, d \in DeclaredTypes, ps \in PriorParams,
        i \in WordInputs \cup ScalarInputs \cup ListInputs \cup DictInputs
              \cup StructInputs \cup ShortInputs}

----------------------------------------------------------------------------
(* Proxy dispatcher: mw_utils/handlers.py and mw_utils/auth.py *)

\* s.startswith(prefix) and s.endswith(suffix)
startswith(s, prefix) == Len(s) >= Len(prefix) /\ SubSeq(s, 1, Len(prefix)) = prefix
endswith(s, suffix) ==
    Len(s) >= Len(suffix) /\ SubSeq(s, Len(s) - Len(suffix) + 1, Len(s)) = suffix

\* s.rstrip(chars)
RECURSIVE rstrip(_, _)
rstrip(s, chars) ==
    IF Len(s) > 0 /\ s[Len(s)] \in chars THEN rstrip(SubSeq(s, 1, Len(s) - 1), chars) ELSE s

\* s.split(): the runs of characters that are no whitespace
RECURSIVE split_whitespace(_)
split_whitespace(s) ==
    LET i == skip_ws(s, 1)
        rest == SubSeq(s, i, Len(s))
        blanks == {k \in 1..Len(rest) : rest[k] \in Whitespace}
        end == IF blanks = {} THEN Len(rest) + 1
               ELSE CHOOSE k \in blanks : \A j \in blanks : k <= j
    IN  IF i > Len(s) THEN <<>>
        ELSE <<SubSeq(rest, 1, end - 1)>> \o split_whitespace(SubSeq(rest, end, Len(rest)))

\* _normalize_base_url(base_url)
normalize_base_url(base_url) ==
    IF \/ startswith(lower(base_url), <<"h", "t", "t", "p", ":", "/", "/">>)
       \/ startswith(lower(base_url), <<"h", "t", "t", "p", "s", ":", "/", "/">>)
    THEN base_url
    ELSE <<"h", "t", "t", "p", "s", ":", "/", "/">> \o base_url

\* the target paths of the authentication endpoint and of the remote-procedure endpoint
LOGIN_TOKEN_PHP ==
    <<"/", "l", "o", "g", "i", "n", "/", "t", "o", "k", "e", "n", ".", "p", "h", "p">>
REST_SERVER_PHP ==
    <<"/", "w", "e", "b", "s", "e", "r", "v", "i", "c", "e", "/", "r", "e", "s", "t", "/",
      "s", "e", "r", "v", "e", "r", ".", "p", "h", "p">>

\* _is_auth_endpoint(ep_path)
is_auth_endpoint(ep_path) == endswith(ep_path, LOGIN_TOKEN_PHP)

\* _get_env_moodle_url(), MOODLE_URL being the value of the environment variable ("" if
\* it is not set)
get_env_moodle_url(MOODLE_URL) ==
    IF strip(MOODLE_URL) \in {<<>>, <<"*">>} THEN <<>> ELSE strip(MOODLE_URL)

\* the scheme of the Authorization header, in lower case
BEARER == <<"b", "e", "a", "r", "e", "r">>

\* variant: the query parameter is looked at first
resolve_token_query_first(authorization, wstoken) ==
    IF wstoken /= None /\ strip(V(wstoken)) /= <<>> THEN strip(V(wstoken))
    ELSE LET parts == split_whitespace(strip(authorization))
         IN  IF Len(parts) = 2 /\ lower(parts[1]) = BEARER THEN strip(parts[2]) ELSE <<>>

\* resolve_token_from_request(request): authorization is the Authorization header ("" if
\* the request has none), wstoken the query parameter (None if the request has none)
resolve_token_from_request(authorization, wstoken) ==
    LET auth == strip(authorization)
        parts == split_whitespace(auth)
    IN  IF auth /= <<>> /\ Len(parts) = 2 /\ lower(parts[1]) = BEARER
        THEN strip(parts[2])
        ELSE strip(IF wstoken = None THEN <<>> ELSE V(wstoken))

\* the names of the injected parameters
WSTOKEN == <<"w", "s", "t", "o", "k", "e", "n">>
WSFUNCTION == <<"w", "s", "f", "u", "n", "c", "t", "i", "o", "n">>
MOODLEWSRESTFORMAT ==
    <<"m", "o", "o", "d", "l", "e", "w", "s", "r", "e", "s", "t", "f", "o", "r", "m", "a",
      "t">>
MOODLE_URL_FIELD == <<"m", "o", "o", "d", "l", "e", "_", "u", "r", "l">>

\* the injected response format
JSON == <<"j", "s", "o", "n">>

\* d.get(key, default)
get(d, key, default) == IF key \in DOMAIN d THEN d[key] ELSE default

\* d.setdefault(key, default): the dict it leaves
setdefault(d, key, default) == IF key \in DOMAIN d THEN d ELSE setitem(d, key, default)

\* variant: the injected default replaces what is there
setdefault_overriding(ps, function) ==
    setitem(setitem(ps, WSFUNCTION, StrValue(function)), MOODLEWSRESTFORMAT,
            StrValue(JSON))

\* lines 152-153: params.setdefault("wsfunction", ...); params.setdefault(
\* "moodlewsrestformat", "json")
setdefault_rest(ps, function) ==
    setdefault(setdefault(ps, WSFUNCTION, StrValue(function)), MOODLEWSRESTFORMAT,
               StrValue(JSON))

\* a declared parameter of function_config["query_params"]
Param(name, type, send_if_empty) ==
    [name |-> name, type |-> type, send_if_empty |-> send_if_empty, default |-> None]

\* lines 132-144, the body of "for param in query_params" for the value of the body
encode_declared(ps, param, value) ==
    IF value /= None /\ value /= StrValue(<<>>)
    THEN encode_param(ps, param.name, value, param.type)
    ELSE IF param.send_if_empty
    THEN encode_param(ps, param.name, StrValue(<<>>), param.type)
    ELSE ps

\* "for param in query_params" from parameter number n on
RECURSIVE encode_query_params(_, _, _, _)
encode_query_params(ps, query_params, body_dict, n) ==
    IF n > Len(query_params) THEN ps
    ELSE encode_query_params(
             encode_declared(ps, query_params[n],
                             get(body_dict, query_params[n].name, query_params[n].default)),
             query_params, body_dict, n + 1)

\* variant: no token is injected
inject_token_never(ps, ep_path, token) == ps

\* variant: the token is injected for the authentication endpoint too
inject_token_always(ps, ep_path, token) ==
    IF token /= <<>> THEN setitem(ps, WSTOKEN, StrValue(token)) ELSE ps

\* lines 146-149: the access token is put under wstoken unless the path is the
\* authentication endpoint or no token was resolved
inject_token(ps, ep_path, token) ==
    IF ~is_auth_endpoint(ep_path) /\ token /= <<>>
    THEN setitem(ps, WSTOKEN, StrValue(token))
    ELSE ps

\* lines 127-153: the path and the parameter set of the upstream call
handler_ep_path(endpoint_path) ==
    IF startswith(endpoint_path, <<"/">>) THEN endpoint_path ELSE <<"/">> \o endpoint_path
handler_params(d) ==
    LET ep_path == handler_ep_path(d.endpoint_path)
        encoded == encode_query_params(NoParams, d.query_params, d.body, 1)
        with_token == inject_token(encoded, ep_path,
                                   resolve_token_from_request(d.authorization, d.wstoken))
    IN  IF endswith(ep_path, REST_SERVER_PHP) THEN setdefault_rest(with_token, d.function)
        ELSE with_token

\* lines 121-122: env_base or body_dict.get("moodle_url"), <<>> if there is none
handler_base_url(d) ==
    LET env_base == get_env_moodle_url(d.MOODLE_URL)
        given == get(d.body, MOODLE_URL_FIELD, None)
    IN  IF env_base /= <<>> THEN env_base
        ELSE IF given = None THEN <<>> ELSE V(given)

\* line 109: function_config.get("method", "GET").upper()
handler_method(d) == upper(d.method)

\* line 163: client.post(url, data=params), whatever the declared method
upstream_call(d) ==
    [method |-> <<"P", "O", "S", "T">>,
     encoding |-> "form",
     url |-> rstrip(normalize_base_url(handler_base_url(d)), {"/"})
             \o handler_ep_path(d.endpoint_path),
     params |-> handler_params(d)]

\* no answer yet
NoReply == [status |-> 0, kind |-> "none", detail |-> "none", body |-> "none",
            direct_method |-> <<>>]

\* no dispatcher invocation
NoDispatch == [state |-> "none"]

\* the values of the MOODLE_URL environment variable ("" if it is not set) with the
\* moodle_url field of the body (None: the body has no such field)
BaseUrlInputs ==
    {<<<<"h", "t", "t", "p", "s", ":", "/", "/", "m", ".", "i", "o">>, None>>,
     <<<<>>, None>>,
     <<<<"*">>, None>>,
     <<<<>>, StrValue(<<>>)>>,
     <<<<"*">>, StrValue(<<"m", ".", "i", "o", "/">>)>>,
     <<<<>>, StrValue(<<"H", "T", "T", "P", ":", "/", "/", "m", ".", "i", "o">>)>>}

\* the endpoint paths of the configuration: the remote-procedure endpoint (also written
\* without its leading slash), the authentication endpoint (also that of a Moodle in
\* the directory /x) and another script
EndpointPaths ==
    {REST_SERVER_PHP,
     <<"w", "e", "b", "s", "e", "r", "v", "i", "c", "e", "/", "r", "e", "s", "t", "/",
       "s", "e", "r", "v", "e", "r", ".", "p", "h", "p">>,
     LOGIN_TOKEN_PHP,
     <<"/", "x">> \o LOGIN_TOKEN_PHP,
     <<"/", "m", "o", "d", "/", "x", ".", "p", "h", "p">>}

\* the declared methods
LOWER_GET == <<"g", "e", "t">>
POST == <<"P", "O", "S", "T">>
Methods == {LOWER_GET, POST}

\* the configured function name
SITE_INFO ==
    <<"c", "o", "r", "e", "_", "w", "e", "b", "s", "e", "r", "v", "i", "c", "e", "_", "g",
      "e", "t", "_", "s", "i", "t", "e", "_", "i", "n", "f", "o">>
FunctionNames == {SITE_INFO}

\* the Authorization headers of a request ("" for none): the token t1 in a Bearer
\* header, the same with other case and blanks, a scheme alone, another scheme, three
\* parts
TOKEN_T1 == <<"t", "1">>
BEARER_T1 == <<"B", "e", "a", "r", "e", "r", " ">> \o TOKEN_T1
BEARER_LOOSE == <<" ", "b", "e", "a", "r", "e", "r", " ", " ">> \o TOKEN_T1 \o <<" ">>
AuthorizationInputs ==
    {<<>>, BEARER_T1, BEARER_LOOSE,
     <<"B", "e", "a", "r", "e", "r">>,
     <<"B", "a", "s", "i", "c", " ">> \o TOKEN_T1,
     BEARER_T1 \o <<" ", "x">>}

\* the wstoken query parameters of a request (None for none): the token t2, plain and
\* between blanks
TOKEN_T2 == <<"t", "2">>
TOKEN_T2_PADDED == <<" ">> \o TOKEN_T2 \o <<" ">>
WstokenInputs == {None, StrValue(<<>>), StrValue(TOKEN_T2), StrValue(TOKEN_T2_PADDED)}

\* a value a body supplies for a parameter of an injected name
MINE == <<"m", "i", "n", "e">>

\* the declared parameters of an endpoint with the values the body gives them: none;
\* one parameter of each declared type, flagged send_if_empty or not, with no value,
\* the empty string and a value of its type; a declared parameter with the name of an
\* injected one; two parameters
OPTS == <<"o", "p", "t", "s">>
TypedValues ==
    {<<STR, StrValue(<<"x">>)>>, <<INT, IntValue(5)>>, <<FLOAT, FloatValue(150)>>,
     <<BOOL, BoolValue(FALSE)>>, <<LIST, ListValue(<<StrValue(<<"a">>)>>)>>,
     <<LIST, ListValue(<<>>)>>}
NoBody == [k \in {} |-> None]
DeclaredInputs ==
    {[query_params |-> <<>>, body |-> NoBody]}
    \cup {[query_params |-> <<Param(OPTS, tv[1], e)>>,
           body |-> (OPTS :> (CASE v = "none" -> None
                                [] v = "empty" -> StrValue(<<>>)
                                [] OTHER -> tv[2]))] :
             tv \in TypedValues, e \in BOOLEAN, v \in {"none", "empty", "given"}}
    \cup {[query_params |-> <<Param(n, STR, e)>>, body |-> (n :> v)] :
             n \in {WSTOKEN, WSFUNCTION, MOODLEWSRESTFORMAT}, e \in BOOLEAN,
             v \in {None, StrValue(MINE)}}
    \cup {[query_params |-> <<Param(OPTS, INT, FALSE), Param(WSFUNCTION, STR, TRUE)>>,
           body |-> (OPTS :> IntValue(5)) @@ (WSFUNCTION :> v)] :
             v \in {StrValue(<<>>), StrValue(MINE)}}

\* the invocations of the dispatcher
DispatchInputs ==
    {[state |-> "received", MOODLE_URL |-> base[1], endpoint_path |-> path, method |-> m,
      function |-> f, query_params |-> q.query_params,
      body |-> IF base[2] = None THEN q.body ELSE (MOODLE_URL_FIELD :> base[2]) @@ q.body,
      authorization |-> a, wstoken |-> w] :
        base \in BaseUrlInputs, path \in EndpointPaths, m \in Methods,
        f \in FunctionNames, q \in DeclaredInputs, a \in AuthorizationInputs,
        w \in WstokenInputs}

\* what the upstream call ends in: a success with a JSON or another payload, an error
\* status with a JSON or another payload, a transport failure
UpstreamStatuses == {404, 502}
UpstreamReplies ==
    {[kind |-> "success", status |-> 200, payload |-> p] : p \in {"json", "text"}}
    \cup {[kind |-> "HTTPStatusError", status |-> c, payload |-> p] :
             c \in UpstreamStatuses, p \in {"json", "text"}}
    \cup {[kind |-> "RequestError", status |-> 0, payload |-> "none"]}

----------------------------------------------------------------------------
(* URLs of the file relay and of the login: routes/files.py, routes/secure_auth.py *)

\* "sub in s", and s.find(sub) counted from 1 (0 if sub is not in s)
find(s, sub) ==
    LET at == {i \in 1..(Len(s) - Len(sub) + 1) : SubSeq(s, i, i + Len(sub) - 1) = sub}
    IN  IF at = {} THEN 0 ELSE CHOOSE i \in at : \A j \in at : i <= j
str_in(sub, s) == find(s, sub) /= 0

\* s.replace(old, new): every occurrence of old, from the left, none overlapping
RECURSIVE replace(_, _, _)
replace(s, old, new) ==
    LET i == find(s, old)
    IN  IF i = 0 THEN s
        ELSE SubSeq(s, 1, i - 1) \o new
             \o replace(SubSeq(s, i + Len(old), Len(s)), old, new)

PLUGINFILE_PHP == <<"p", "l", "u", "g", "i", "n", "f", "i", "l", "e", ".", "p", "h", "p">>
WEBSERVICE == <<"w", "e", "b", "s", "e", "r", "v", "i", "c", "e", "/">>
DOT_PHP == <<".", "p", "h", "p">>
SLASH == <<"/">>
HTTP == <<"h", "t", "t", "p", ":", "/", "/">>
HTTPS == <<"h", "t", "t", "p", "s", ":", "/", "/">>

\* proxy_file, files.py lines 81-94: the path of the upstream file URL
proxy_file_path(path) ==
    LET prefixed ==
            IF /\ ~endswith(path, DOT_PHP)
               /\ ~str_in(SLASH \o PLUGINFILE_PHP, path)
               /\ ~startswith(path, PLUGINFILE_PHP)
               /\ ~startswith(path, WEBSERVICE \o PLUGINFILE_PHP)
               /\ ~str_in(SLASH \o WEBSERVICE, path)
            THEN WEBSERVICE \o PLUGINFILE_PHP \o SLASH \o path
            ELSE path
        rooted == IF startswith(prefixed, SLASH) THEN prefixed ELSE SLASH \o prefixed
    IN  IF /\ str_in(SLASH \o PLUGINFILE_PHP, rooted)
           /\ ~str_in(SLASH \o WEBSERVICE \o PLUGINFILE_PHP, rooted)
        THEN replace(rooted, SLASH \o PLUGINFILE_PHP, SLASH \o WEBSERVICE \o PLUGINFILE_PHP)
        ELSE rooted

\* proxy_file, lines 88 and 96: file_url
proxy_file_url(path, moodle_url) == rstrip(moodle_url, {"/"}) \o proxy_file_path(path)

\* _normalize_moodle_url(url) of routes/secure_auth.py, lines 34-37
normalize_moodle_url(url) ==
    IF ~(startswith(lower(url), HTTP) \/ startswith(lower(url), HTTPS))
    THEN HTTPS \o url
    ELSE rstrip(url, {"/"})

\* secure_login, lines 45-47: login_data.moodle_url or get_env_variable("MOODLE_URL")
\* or "https://moodle.example.com", normalized
MOODLE_EXAMPLE_COM == <<"h", "t", "t", "p", "s", ":", "/", "/", "m", "o", "o", "d", "l", "e", ".", "e", "x", "a", "m", "p", "l", "e", ".", "c", "o", "m">>
secure_login_moodle_url(moodle_url, MOODLE_URL) ==
    normalize_moodle_url(IF moodle_url /= None /\ V(moodle_url) /= <<>> THEN V(moodle_url)
                         ELSE IF MOODLE_URL /= <<>> THEN MOODLE_URL
                         ELSE MOODLE_EXAMPLE_COM)

----------------------------------------------------------------------------
(* Environment *)

\* the state after construction of the session store and the routes
StoreInit ==
    /\ now = 0
    /\ redis_client = "none"
    /\ http_client = FALSE
    /\ session_store = [s \in SessionIds |-> AbsentSession]
    /\ ot_store = [t \in TokenIds |-> AbsentToken]
    /\ next_sid = 1
    /\ next_tok = 1
    /\ pc = [p \in Procs |-> "idle"]
    /\ req = [p \in Procs |-> IdleReq]
    /\ resp = NoResp
    /\ created = [s \in SessionIds |-> [done |-> FALSE, moodle_token |-> "",
                                        moodle_url |-> "", at |-> 0]]
    /\ issued = [t \in TokenIds |-> [bundle |-> AbsentToken, ok |-> FALSE, at |-> 0,
                                     deleted |-> FALSE]]
    /\ fetched = [t \in TokenIds |-> 0]

Init ==
    /\ StoreInit
    /\ call = NoCall
    /\ params = NoParams
    /\ dispatch = NoDispatch
    /\ outbound = <<>>
    /\ reply = NoReply

\* the lifespan's init_redis(redis_client)
init_redis ==
    /\ redis_client = "none"
    /\ redis_client' = "up"
    /\ UNCHANGED <<now, http_client, session_store, ot_store, next_sid, next_tok,
                   pc, req, created, issued, fetched>>
    /\ resp' = NoResp
    /\ UNCHANGED pure_vars

\* the backend becomes unreachable
RedisFail ==
    /\ redis_client = "up"
    /\ redis_client' = "down"
    /\ UNCHANGED <<now, http_client, session_store, ot_store, next_sid, next_tok,
                   pc, req, created, issued, fetched>>
    /\ resp' = NoResp
    /\ UNCHANGED pure_vars

\* the backend is reachable again, with its keys
RedisRecover ==
    /\ redis_client = "down"
    /\ redis_client' = "up"
    /\ UNCHANGED <<now, http_client, session_store, ot_store, next_sid, next_tok,
                   pc, req, created, issued, fetched>>
    /\ resp' = NoResp
    /\ UNCHANGED pure_vars

init_http_client ==
    /\ ~http_client
    /\ http_client' = TRUE
    /\ UNCHANGED <<now, redis_client, session_store, ot_store, next_sid, next_tok,
                   pc, req, created, issued, fetched>>
    /\ resp' = NoResp
    /\ UNCHANGED pure_vars

\* time passes; the backend drops the keys whose expiry is reached
Tick ==
    /\ now + TickStep <= MaxTime
    /\ now' = now + TickStep
    /\ session_store' = purge(session_store, AbsentSession, now')
    /\ ot_store' = purge(ot_store, AbsentToken, now')
    /\ UNCHANGED <<redis_client, http_client, next_sid, next_tok,
                   pc, req, created, issued, fetched>>
    /\ resp' = NoResp
    /\ UNCHANGED pure_vars

----------------------------------------------------------------------------
(* Session store: mw_utils/session.py *)

\* a task returns from its handler
Finish(p, r) ==
    /\ resp' = r
    /\ pc' = [pc EXCEPT ![p] = "idle"]
    /\ req' = [req EXCEPT ![p] = IdleReq]

\* variant: only the two signature exceptions are caught
get_session_except_signature_only(exc) ==
    IF exc \in {"SignatureExpired", "BadSignature"} THEN "none" ELSE exc

\* the except clauses of get_session (SignatureExpired, BadSignature, Exception):
\* the exception that leaves the call
get_session_except(exc) == "none"

\* the except clause of delete_session (Exception)
delete_session_except(exc) == "none"

\* variant: the record is written back as it was read
refreshed_as_read(session_data, t) == session_data

\* session_data["last_accessed"] = time.time()
refreshed(session_data, t) == [session_data EXCEPT !.last_accessed = t]

\* the result of get_session on a path that returns None
GetNone(p, e, exc) ==
    [NoResp EXCEPT !.op = "get", !.task = p, !.env = e, !.at = now, !.exc = exc,
                   !.raised = get_session_except(exc)]

\* create_session(moodle_token, moodle_url): nothing is caught
create_session(p, moodle_token, moodle_url) ==
    /\ pc[p] = "idle"
    /\ next_sid <= MaxSessions
    /\ LET r == [NoResp EXCEPT !.op = "create", !.task = p, !.at = now]
           session_data == [moodle_token |-> moodle_token, moodle_url |-> moodle_url,
                            created_at |-> now, last_accessed |-> now]
       IN  IF get_redis /= "none" \/ backend /= "none"
           THEN /\ LET exc == IF get_redis /= "none" THEN get_redis ELSE backend
                   IN  Finish(p, [r EXCEPT !.exc = exc, !.raised = exc])
                /\ UNCHANGED <<session_store, next_sid, created>>
           ELSE /\ session_store' = setex(session_store, next_sid, SESSION_MAX_AGE,
                                          session_data, now)
                /\ next_sid' = next_sid + 1
                /\ created' = [created EXCEPT ![next_sid] =
                                  [done |-> TRUE, moodle_token |-> moodle_token,
                                   moodle_url |-> moodle_url, at |-> now]]
                /\ Finish(p, [r EXCEPT !.envelope = dumps(next_sid, now)])
    /\ UNCHANGED <<now, redis_client, http_client, ot_store, next_tok, issued, fetched>>
    /\ UNCHANGED pure_vars

\* get_session(signed_session_id) up to its "await redis.get": session.py lines 73-81
get_session_get(p, e) ==
    /\ pc[p] = "idle"
    /\ LET l == loads(e, SESSION_MAX_AGE, now)
           data == IF l.exc = "none" THEN session_store[l.sid] ELSE AbsentSession
       IN  IF get_redis /= "none" THEN Finish(p, GetNone(p, e, get_redis))
           ELSE IF l.exc /= "none" THEN Finish(p, GetNone(p, e, l.exc))
           ELSE IF backend /= "none" THEN Finish(p, GetNone(p, e, backend))
           ELSE IF ~data.present THEN Finish(p, GetNone(p, e, "none"))
           ELSE /\ pc' = [pc EXCEPT ![p] = "get_setex"]
                /\ req' = [req EXCEPT ![p] = [IdleReq EXCEPT !.op = "get", !.env = e,
                                                !.sid = l.sid, !.session_data = data,
                                                !.at = now]]
                /\ resp' = NoResp
    /\ UNCHANGED <<now, redis_client, http_client, session_store, ot_store, next_sid,
                   next_tok, created, issued, fetched>>
    /\ UNCHANGED pure_vars

\* get_session from its "await redis.setex" to the return: session.py lines 83-98
get_session_setex(p) ==
    /\ pc[p] = "get_setex"
    /\ LET session_data == refreshed(req[p].session_data, now)
           r == [NoResp EXCEPT !.op = "get", !.task = p, !.env = req[p].env,
                               !.at = req[p].at]
       IN  IF backend /= "none"
           THEN /\ Finish(p, [r EXCEPT !.exc = backend,
                                        !.raised = get_session_except(backend)])
                /\ UNCHANGED session_store
           ELSE /\ session_store' = setex(session_store, req[p].sid, SESSION_MAX_AGE,
                                          session_data, now)
                /\ Finish(p, [r EXCEPT !.session =
                                  SessionData(req[p].sid, session_data.moodle_token,
                                              session_data.moodle_url,
                                              session_data.created_at)])
    /\ UNCHANGED <<now, redis_client, http_client, ot_store, next_sid, next_tok,
                   created, issued, fetched>>
    /\ UNCHANGED pure_vars

\* variant: logout also drops the one-time tokens the session issued
delete_session_cascade(p, e) ==
    /\ pc[p] = "idle"
    /\ LET l == loads(e, SESSION_MAX_AGE, now)
           r == [NoResp EXCEPT !.op = "delete", !.task = p, !.env = e, !.at = now]
           exc == IF get_redis /= "none" THEN get_redis
                  ELSE IF l.exc /= "none" THEN l.exc
                  ELSE backend
       IN  IF exc /= "none"
           THEN /\ Finish(p, [r EXCEPT !.exc = exc,
                                        !.raised = delete_session_except(exc)])
                /\ UNCHANGED <<session_store, ot_store>>
           ELSE /\ session_store' = delete(session_store, l.sid, AbsentSession)
                /\ ot_store' = [t \in TokenIds |->
                                   IF ot_store[t].session_id = l.sid THEN AbsentToken
                                   ELSE ot_store[t]]
                /\ Finish(p, [r EXCEPT !.deleted = session_store[l.sid].present])
    /\ UNCHANGED <<now, redis_client, http_client, next_sid, next_tok,
                   created, issued, fetched>>
    /\ UNCHANGED pure_vars

\* delete_session(signed_session_id): one backend command, DEL
delete_session(p, e) ==
    /\ pc[p] = "idle"
    /\ LET l == loads(e, SESSION_MAX_AGE, now)
           r == [NoResp EXCEPT !.op = "delete", !.task = p, !.env = e, !.at = now]
           exc == IF get_redis /= "none" THEN get_redis
                  ELSE IF l.exc /= "none" THEN l.exc
                  ELSE backend
       IN  IF exc /= "none"
           THEN /\ Finish(p, [r EXCEPT !.exc = exc,
                                        !.raised = delete_session_except(exc)])
                /\ UNCHANGED session_store
           ELSE /\ session_store' = delete(session_store, l.sid, AbsentSession)
                /\ Finish(p, [r EXCEPT !.deleted = session_store[l.sid].present])
    /\ UNCHANGED <<now, redis_client, http_client, ot_store, next_sid, next_tok,
                   created, issued, fetched>>
    /\ UNCHANGED pure_vars

----------------------------------------------------------------------------
(* One-time tokens: routes/office_preview.py *)

\* the SessionData a handler can be given: that of a session create_session stored
SessionInputs ==
    {SessionData(s, created[s].moodle_token, created[s].moodle_url, created[s].at) :
        s \in {x \in SessionIds : created[x].done}}

\* what the upstream file request can end in
UpstreamOutcomes == {"ok", "HTTPStatusError", "RequestError"}
\* the Content-Type header of an upstream file answer: none, the generic type, the type
\* of the file
NoHeader == "none"
OCTET_STREAM == "application/octet-stream"
DOCX ==
    "application/vnd.openxmlformats-officedocument.wordprocessingml.document"
ContentTypes == {NoHeader, OCTET_STREAM, DOCX}
\* the Cache-Control header of the one-time file answer, line 220
NO_CACHE == "no-store, no-cache, must-revalidate"

\* guess_content_type(path, moodle_content_type) of routes/files.py: the type upstream
\* gave unless there is none or it is the generic one, else mimetypes.guess_type(path)
\* (as far as the paths go: the type of .docx, None without extension)
guess_content_type(path, moodle_content_type) ==
    LET content_type == IF path = "/pluginfile.php/1/a.docx" THEN DOCX ELSE NoHeader
    IN  IF moodle_content_type /= NoHeader /\ moodle_content_type /= OCTET_STREAM
        THEN moodle_content_type
        ELSE IF content_type /= NoHeader THEN content_type ELSE OCTET_STREAM
\* the status of an upstream error answer
UpstreamErrorStatus == 404

\* not all([file_path, moodle_url, moodle_token])
InvalidTokenData(d) == d.file_path = "" \/ d.moodle_url = "" \/ d.moodle_token = ""

\* the except clauses of get_file_with_one_time_token: the answer for an exception
get_file_with_one_time_token_except(exc) ==
    IF exc = "HTTPStatusError"
    THEN [status |-> UpstreamErrorStatus, detail |-> "Failed to fetch file from Moodle"]
    ELSE IF exc = "RequestError"
    THEN [status |-> 502, detail |-> "Failed to connect to Moodle"]
    ELSE [status |-> 500, detail |-> "An unexpected error occurred"]

\* an HTTP answer as the outcome of a route
Answer(r, a) == [r EXCEPT !.status = a.status, !.detail = a.detail]

\* the answer a route gives because exception exc was raised in it
Failure(r, exc, a) == [Answer(r, a) EXCEPT !.exc = exc]

\* variant: "if token_data is None", which HGETALL never answers
token_missing_is_none(token_data) == FALSE

\* "if not token_data": HGETALL found no hash under the key
token_missing(token_data) == ~token_data.present

\* generate_one_time_token(request, session) up to "await redis_client.hset":
\* office_preview.py lines 124-142
generate_one_time_token_hset(p, file_path, session) ==
    /\ pc[p] = "idle"
    /\ next_tok <= MaxTokens
    /\ LET r == [NoResp EXCEPT !.op = "issue", !.task = p, !.at = now]
           token_data == [file_path |-> file_path, moodle_url |-> session.moodle_url,
                          moodle_token |-> session.moodle_token,
                          session_id |-> session.session_id]
       IN  IF get_redis /= "none"
           THEN /\ Finish(p, Failure(r, get_redis, [status |-> 503,
                                                    detail |-> "Redis unavailable"]))
                /\ UNCHANGED <<ot_store, next_tok, issued>>
           ELSE IF backend /= "none"
           THEN /\ Finish(p, Failure(r, backend, [status |-> 500,
                                                  detail |-> "Failed to generate token"]))
                /\ UNCHANGED <<ot_store, next_tok, issued>>
           ELSE /\ ot_store' = hset(ot_store, next_tok, token_data)
                /\ next_tok' = next_tok + 1
                /\ issued' = [issued EXCEPT ![next_tok] =
                                 [@ EXCEPT !.bundle = hset(ot_store, next_tok,
                                                           token_data)[next_tok]]]
                /\ pc' = [pc EXCEPT ![p] = "issue_expire"]
                /\ req' = [req EXCEPT ![p] = [IdleReq EXCEPT !.op = "issue",
                                                !.tok = next_tok, !.at = now]]
                /\ resp' = NoResp
    /\ UNCHANGED <<now, redis_client, http_client, session_store, next_sid, created,
                   fetched>>
    /\ UNCHANGED pure_vars

\* generate_one_time_token from "await redis_client.expire" to the response:
\* office_preview.py lines 143-158
generate_one_time_token_expire(p) ==
    /\ pc[p] = "issue_expire"
    /\ LET r == [NoResp EXCEPT !.op = "issue", !.task = p, !.at = req[p].at,
                               !.tok = req[p].tok]
       IN  IF backend /= "none"
           THEN /\ Finish(p, Failure(r, backend, [status |-> 500,
                                                  detail |-> "Failed to generate token"]))
                /\ UNCHANGED <<ot_store, issued>>
           ELSE /\ ot_store' = expire(ot_store, req[p].tok, TOKEN_EXPIRY_SECONDS, now)
                /\ issued' = [issued EXCEPT ![req[p].tok] =
                                 [@ EXCEPT !.ok = TRUE, !.at = now]]
                /\ Finish(p, Answer(r, [status |-> 200, detail |-> ""]))
    /\ UNCHANGED <<now, redis_client, http_client, session_store, next_sid, next_tok,
                   created, fetched>>
    /\ UNCHANGED pure_vars

\* get_file_with_one_time_token(token) up to "await redis_client.hgetall" and the
\* checks of its answer: office_preview.py lines 176-197
get_file_with_one_time_token_hgetall(p, token) ==
    /\ pc[p] = "idle"
    /\ LET r == [NoResp EXCEPT !.op = "consume", !.task = p, !.tok = token, !.at = now]
           token_data == hgetall(ot_store, token)
       IN  IF get_redis /= "none"
           THEN Finish(p, Failure(r, get_redis, [status |-> 503,
                                                 detail |-> "Redis unavailable"]))
           ELSE IF backend /= "none"
           THEN Finish(p, Failure(r, backend, get_file_with_one_time_token_except(backend)))
           ELSE IF token_missing(token_data)
           THEN Finish(p, Failure(r, "HTTPException",
                                  [status |-> 404, detail |-> "Token not found or expired"]))
           ELSE IF InvalidTokenData(token_data)
           THEN Finish(p, Failure(r, "HTTPException",
                                  [status |-> 500, detail |-> "Invalid token data"]))
           ELSE /\ pc' = [pc EXCEPT ![p] = "consume_delete"]
                /\ req' = [req EXCEPT ![p] = [IdleReq EXCEPT !.op = "consume",
                                                !.tok = token, !.token_data = token_data,
                                                !.at = now]]
                /\ resp' = NoResp
    /\ UNCHANGED <<now, redis_client, http_client, session_store, ot_store, next_sid,
                   next_tok, created, issued, fetched>>
    /\ UNCHANGED pure_vars

\* variant: the route fetches first and would delete the record afterwards
get_file_with_one_time_token_fetch_first(p) ==
    /\ pc[p] = "consume_delete"
    /\ IF ~http_client
       THEN Finish(p, Failure([NoResp EXCEPT !.op = "consume", !.task = p,
                                             !.tok = req[p].tok, !.at = req[p].at,
                                             !.bundle = req[p].token_data],
                              "RuntimeError",
                              get_file_with_one_time_token_except("RuntimeError")))
       ELSE /\ pc' = [pc EXCEPT ![p] = "consume_fetch"]
            /\ UNCHANGED req
            /\ resp' = NoResp
    /\ UNCHANGED <<now, redis_client, http_client, session_store, ot_store, next_sid,
                   next_tok, created, issued, fetched>>
    /\ UNCHANGED pure_vars

\* get_file_with_one_time_token from "await redis_client.delete" to the upstream
\* request: office_preview.py lines 199-209; get_http_client() is lines 52-56
get_file_with_one_time_token_delete(p) ==
    /\ pc[p] = "consume_delete"
    /\ LET r == [NoResp EXCEPT !.op = "consume", !.task = p, !.tok = req[p].tok,
                               !.at = req[p].at, !.bundle = req[p].token_data]
       IN  IF backend /= "none"
           THEN /\ Finish(p, Failure(r, backend, get_file_with_one_time_token_except(backend)))
                /\ UNCHANGED <<ot_store, issued>>
           ELSE /\ ot_store' = delete(ot_store, req[p].tok, AbsentToken)
                /\ issued' = [issued EXCEPT ![req[p].tok].deleted = TRUE]
                /\ IF ~http_client
                   THEN Finish(p, Failure(r, "RuntimeError",
                                          get_file_with_one_time_token_except("RuntimeError")))
                   ELSE /\ pc' = [pc EXCEPT ![p] = "consume_fetch"]
                        /\ UNCHANGED req
                        /\ resp' = NoResp
    /\ UNCHANGED <<now, redis_client, http_client, session_store, next_sid, next_tok,
                   created, fetched>>
    /\ UNCHANGED pure_vars

\* fetch_file_from_moodle(file_url, moodle_token, client), lines 83-92: the headers
\* taken from the answer of upstream, whose Content-Type is content_type (NoHeader if
\* it has none)
fetch_file_from_moodle(content_type) ==
    [Content_Type |-> IF content_type = NoHeader THEN OCTET_STREAM ELSE content_type]

\* get_file_with_one_time_token from "await client.get" (line 83) to the response:
\* office_preview.py lines 209-246.  upstream is what the request ends in,
\* content_type the Content-Type header of a successful answer
get_file_with_one_time_token_fetch(p, upstream, content_type) ==
    /\ pc[p] = "consume_fetch"
    /\ upstream /= "ok" => content_type = NoHeader
    /\ LET r == [NoResp EXCEPT !.op = "consume", !.task = p, !.tok = req[p].tok,
                               !.at = req[p].at, !.bundle = req[p].token_data,
                               !.fetch = TRUE]
           moodle_headers == fetch_file_from_moodle(content_type)
       IN  /\ fetched' = [fetched EXCEPT ![req[p].tok] = @ + 1]
           /\ IF upstream = "ok"
              THEN Finish(p, [Answer(r, [status |-> 200, detail |-> ""])
                                 EXCEPT !.media_type = moodle_headers.Content_Type,
                                        !.cache_control = NO_CACHE,
                                        !.content_type = content_type])
              ELSE Finish(p, Failure(r, upstream,
                                     get_file_with_one_time_token_except(upstream)))
    /\ UNCHANGED <<now, redis_client, http_client, session_store, ot_store, next_sid,
                   next_tok, created, issued>>
    /\ UNCHANGED pure_vars

----------------------------------------------------------------------------
(* Routes over the session store: routes/secure_auth.py, dependencies/auth.py *)

\* a request without the session cookie
NoCookie == [sid |-> 0, ts |-> 0, mac |-> -1]

\* what a request can carry as session cookie
CookieInputs == EnvelopeInputs \cup {NoCookie}

\* what the upstream POST /login/token.php can end in: a body with a token, a body
\* with error or errorcode, a body without token, an error status, a transport failure
LoginOutcomes == {"token", "error", "no_token", "HTTPStatusError", "RequestError"}

\* the value of calling an "async def" function without await: a coroutine object;
\* the function's body does not run
coroutine(f) == [kind |-> "coroutine", of |-> f]

\* bool(v) of what a call evaluated to: None is false, any other object is true
truthy(v) == v.kind /= "None"

\* str(v) as Response.set_cookie stores it: the text of a coroutine object is
\* "<coroutine object ...>", which carries no signature
cookie_value(v) == IF v.kind = "coroutine" THEN Garbage ELSE v.envelope

\* the except clauses of secure_login: the answer for an exception
secure_login_except(exc) ==
    IF exc = "HTTPStatusError"
    THEN [status |-> UpstreamErrorStatus, detail |-> "Error communicating with Moodle"]
    ELSE [status |-> 500, detail |-> "Internal server error during login"]

\* variant: the cookie is set as soon as upstream has answered with a body, before the
\* body is looked at
secure_login_cookie_first(p, upstream, moodle_token, moodle_url) ==
    /\ pc[p] = "idle"
    /\ LET r == [NoResp EXCEPT !.op = "login", !.task = p, !.at = now]
           session_id == coroutine("create_session")
       IN  IF upstream \in {"HTTPStatusError", "RequestError"}
           THEN Finish(p, Failure(r, upstream, secure_login_except(upstream)))
           ELSE Finish(p, [Answer(r, [status |-> 200,
                                      detail |-> CASE upstream = "error" ->
                                                          "Authentication failed"
                                                   [] upstream = "no_token" ->
                                                          "No token received from Moodle"
                                                   [] OTHER -> "Login successful"])
                              EXCEPT !.success = (upstream = "token"),
                                     !.set_cookie = TRUE,
                                     !.cookie = cookie_value(session_id)])
    /\ UNCHANGED <<now, redis_client, http_client, session_store, ot_store, next_sid,
                   next_tok, created, issued, fetched>>
    /\ UNCHANGED pure_vars

\* secure_login(login_data, response); moodle_url is the result of
\* _normalize_moodle_url.  Line 73 calls create_session without await.
secure_login(p, upstream, moodle_token, moodle_url) ==
    /\ pc[p] = "idle"
    /\ LET r == [NoResp EXCEPT !.op = "login", !.task = p, !.at = now]
           session_id == coroutine("create_session")
       IN  IF upstream \in {"HTTPStatusError", "RequestError"}
           THEN Finish(p, Failure(r, upstream, secure_login_except(upstream)))
           ELSE IF upstream = "error"
           THEN Finish(p, Answer(r, [status |-> 200, detail |-> "Authentication failed"]))
           ELSE IF upstream = "no_token"
           THEN Finish(p, Answer(r, [status |-> 200,
                                     detail |-> "No token received from Moodle"]))
           ELSE Finish(p, [Answer(r, [status |-> 200, detail |-> "Login successful"])
                              EXCEPT !.success = TRUE, !.set_cookie = TRUE,
                                     !.cookie = cookie_value(session_id),
                                     !.moodle_token = moodle_token,
                                     !.moodle_url = moodle_url])
    /\ UNCHANGED <<now, redis_client, http_client, session_store, ot_store, next_sid,
                   next_tok, created, issued, fetched>>
    /\ UNCHANGED pure_vars

\* secure_logout(response, session_cookie).  Line 112 calls delete_session without
\* await.
secure_logout(p, session_cookie) ==
    /\ pc[p] = "idle"
    /\ LET r == [NoResp EXCEPT !.op = "logout", !.task = p, !.at = now,
                               !.env = session_cookie]
           discarded == coroutine("delete_session")
       IN  Finish(p, [Answer(r, [status |-> 200, detail |-> "Logged out successfully"])
                         EXCEPT !.success = TRUE,
                                !.returned = IF session_cookie /= NoCookie
                                             THEN discarded.kind ELSE "None"])
    /\ UNCHANGED <<now, redis_client, http_client, session_store, ot_store, next_sid,
                   next_tok, created, issued, fetched>>
    /\ UNCHANGED pure_vars

\* get_current_session(session_cookie), the dependency of the protected routes.
\* Line 31 calls get_session without await.
get_current_session(p, session_cookie) ==
    /\ pc[p] = "idle"
    /\ LET r == [NoResp EXCEPT !.op = "gate", !.task = p, !.at = now,
                               !.env = session_cookie]
           session == coroutine("get_session")
       IN  IF session_cookie = NoCookie
           THEN Finish(p, Failure(r, "HTTPException",
                                  [status |-> 401, detail |-> "Not authenticated"]))
           ELSE IF ~truthy(session)
           THEN Finish(p, Failure(r, "HTTPException",
                                  [status |-> 401, detail |-> "Invalid or expired session"]))
           ELSE Finish(p, [r EXCEPT !.returned = session.kind])
    /\ UNCHANGED <<now, redis_client, http_client, session_store, ot_store, next_sid,
                   next_tok, created, issued, fetched>>
    /\ UNCHANGED pure_vars

\* POST /office/generate-token as the framework serves it: the dependency
\* get_current_session(session_cookie), then generate_one_time_token(request, session)
\* with the value the dependency returned.  That value is the coroutine object of
\* auth.py:31, so "session.moodle_url" (office_preview.py:135, outside the try blocks)
\* raises AttributeError and the request is answered 500 before any backend command.
generate_one_time_token_gated(p, session_cookie, file_path) ==
    /\ pc[p] = "idle"
    /\ LET r == [NoResp EXCEPT !.op = "issue", !.task = p, !.at = now,
                               !.env = session_cookie]
           session == coroutine("get_session")
       IN  IF session_cookie = NoCookie
           THEN Finish(p, Failure(r, "HTTPException",
                                  [status |-> 401, detail |-> "Not authenticated"]))
           ELSE IF ~truthy(session)
           THEN Finish(p, Failure(r, "HTTPException",
                                  [status |-> 401, detail |-> "Invalid or expired session"]))
           ELSE IF get_redis /= "none"
           THEN Finish(p, [Failure(r, get_redis, [status |-> 503,
                                                  detail |-> "Redis unavailable"])
                              EXCEPT !.returned = session.kind])
           ELSE Finish(p, [Failure(r, "AttributeError",
                                   [status |-> 500, detail |-> "Internal Server Error"])
                              EXCEPT !.returned = session.kind])
    /\ UNCHANGED <<now, redis_client, http_client, session_store, ot_store, next_sid,
                   next_tok, created, issued, fetched>>
    /\ UNCHANGED pure_vars

----------------------------------------------------------------------------
(* File relay and login, from the request to the upstream call *)

\* the paths of the requests GET /files/{path}: up to MaxSegments segments, with and
\* without a leading slash
SegmentInputs == {<<"w", "e", "b", "s", "e", "r", "v", "i", "c", "e">>, PLUGINFILE_PHP, <<"1">>, <<"a", ".", "p", "d", "f">>, <<"x", ".", "p", "h", "p">>}
PathInputs ==
    LET joined == {join(c, SLASH) : c \in SeqsUpTo(SegmentInputs, MaxSegments) \ {<<>>}}
    IN  joined \cup {SLASH \o p : p \in joined}

\* what the route body is handed as session: the coroutine object that
\* get_current_session returns (dependencies/auth.py:31), or the SessionData the route
\* is written for, with a base URL with or without a trailing slash
M_IO == <<"h", "t", "t", "p", "s", ":", "/", "/", "m", ".", "i", "o">>
SessionArgs ==
    {coroutine("get_session")}
    \cup {[kind |-> "SessionData", of |-> "get_session", moodle_url |-> u,
           moodle_token |-> TOKEN_T1] : u \in {M_IO, M_IO \o SLASH}}

\* the moodle_url of a login request (None: not given) and the MOODLE_URL of the
\* environment ("" if it is not set)
UrlInputs ==
    {<<"m", ".", "i", "o">>, <<"m", ".", "i", "o", "/">>, <<"h", "t", "t", "p", ":", "/", "/", "m", ".", "i", "o">>, <<"h", "t", "t", "p", "s", ":", "/", "/", "m", ".", "i", "o", "/">>, <<"H", "T", "T", "P", ":", "/", "/", "m", ".", "i", "o", "/">>,
     <<"h", "t", "t", "p", "s", ":", "/", "/", "m", ".", "i", "o", "/", "/">>}
LoginUrlInputs ==
    {<<StrValue(u), <<>>>> : u \in UrlInputs}
    \cup {<<u, e>> : u \in {None, StrValue(<<>>)}, e \in {<<>>, <<"e", "n", "v", ".", "i", "o", "/">>}}

\* the requests to the file relay and to the login
RelayInputs ==
    {[state |-> "received", route |-> "proxy_file", path |-> p, session |-> s] :
        p \in PathInputs, s \in SessionArgs}
    \cup {[state |-> "received", route |-> "secure_login", moodle_url |-> u[1],
           MOODLE_URL |-> u[2]] : u \in LoginUrlInputs}

InitRelay ==
    /\ StoreInit
    /\ call = NoCall
    /\ params = NoParams
    /\ dispatch \in RelayInputs
    /\ outbound = <<>>
    /\ reply = NoReply

\* proxy_file(path, session) up to "await fetch_file": files.py lines 81-107, the
\* request of fetch_file is line 52.  Of a coroutine object, session.moodle_url (line
\* 88) raises AttributeError.
TOKEN == <<"t", "o", "k", "e", "n">>
proxy_file ==
    /\ dispatch.state = "received" /\ dispatch.route = "proxy_file"
    /\ IF dispatch.session.kind = "coroutine"
       THEN /\ reply' = [NoReply EXCEPT !.status = 500, !.kind = "AttributeError",
                                        !.detail = "Internal Server Error"]
            /\ dispatch' = [dispatch EXCEPT !.state = "failed"]
            /\ UNCHANGED outbound
       ELSE /\ outbound' = Append(outbound,
                                  [method |-> <<"G", "E", "T">>, encoding |-> "query",
                                   url |-> proxy_file_url(dispatch.path,
                                                          dispatch.session.moodle_url),
                                   params |-> (TOKEN :>
                                               StrValue(dispatch.session.moodle_token))])
            /\ dispatch' = [dispatch EXCEPT !.state = "awaiting"]
            /\ UNCHANGED reply
    /\ UNCHANGED <<now, redis_client, http_client, session_store, ot_store, next_sid,
                   next_tok, pc, req, resp, created, issued, fetched, call, params>>

\* proxy_file from the return of fetch_file to the answer: files.py lines 53-63 and
\* 109-140 (the answer's status, kind and detail)
proxy_file_returns(upstream) ==
    /\ dispatch.state = "awaiting" /\ dispatch.route = "proxy_file"
    /\ reply' = CASE upstream = "ok" ->
                       [NoReply EXCEPT !.status = 200, !.kind = "returned"]
                  [] upstream = "HTTPStatusError" ->
                       [NoReply EXCEPT !.status = UpstreamErrorStatus,
                                       !.kind = "HTTPException",
                                       !.detail = "Failed to fetch file from Moodle"]
                  [] OTHER ->
                       [NoReply EXCEPT !.status = 502, !.kind = "HTTPException",
                                       !.detail = "Failed to connect to Moodle"]
    /\ dispatch' = [dispatch EXCEPT !.state = IF upstream = "ok" THEN "Success"
                                              ELSE upstream]
    /\ UNCHANGED <<now, redis_client, http_client, session_store, ot_store, next_sid,
                   next_tok, pc, req, resp, created, issued, fetched, call, params,
                   outbound>>

\* secure_login(login_data, response) up to "await client.post": secure_auth.py lines
\* 45-59
secure_login_post ==
    /\ dispatch.state = "received" /\ dispatch.route = "secure_login"
    /\ LET moodle_url == secure_login_moodle_url(dispatch.moodle_url, dispatch.MOODLE_URL)
       IN  /\ outbound' = Append(outbound,
                                 [method |-> POST, encoding |-> "form",
                                  url |-> moodle_url \o LOGIN_TOKEN_PHP,
                                  params |-> NoParams])
           /\ dispatch' = [dispatch EXCEPT !.state = "awaiting"]
    /\ UNCHANGED reply
    /\ UNCHANGED <<now, redis_client, http_client, session_store, ot_store, next_sid,
                   next_tok, pc, req, resp, created, issued, fetched, call, params>>

\* secure_login from the return of client.post to the answer, lines 61-106:
\* created_with is the moodle_url that create_session is called with at line 73 (<<>>
\* if it is not called)
secure_login_returns(upstream) ==
    /\ dispatch.state = "awaiting" /\ dispatch.route = "secure_login"
    /\ LET moodle_url == secure_login_moodle_url(dispatch.moodle_url, dispatch.MOODLE_URL)
           r == [created_with |-> <<>>, set_cookie |-> FALSE] @@ NoReply
       IN  reply' =
               CASE upstream \in {"HTTPStatusError", "RequestError"} ->
                        [r EXCEPT !.status = secure_login_except(upstream).status,
                                  !.kind = "HTTPException",
                                  !.detail = secure_login_except(upstream).detail]
                 [] upstream = "error" ->
                        [r EXCEPT !.status = 200, !.kind = "returned",
                                  !.detail = "Authentication failed"]
                 [] upstream = "no_token" ->
                        [r EXCEPT !.status = 200, !.kind = "returned",
                                  !.detail = "No token received from Moodle"]
                 [] OTHER ->
                        [r EXCEPT !.status = 200, !.kind = "returned",
                                  !.detail = "Login successful",
                                  !.created_with = moodle_url, !.set_cookie = TRUE]
    /\ dispatch' = [dispatch EXCEPT !.state = IF upstream = "token" THEN "Success"
                                              ELSE upstream]
    /\ UNCHANGED <<now, redis_client, http_client, session_store, ot_store, next_sid,
                   next_tok, pc, req, resp, created, issued, fetched, call, params,
                   outbound>>

NextRelay ==
    \/ proxy_file
    \/ \E u \in UpstreamOutcomes : proxy_file_returns(u)
    \/ secure_login_post
    \/ \E o \in LoginOutcomes : secure_login_returns(o)

SpecRelay == InitRelay /\ [][NextRelay]_vars

----------------------------------------------------------------------------
(* The system *)

\* the lifespan, the clock and the backend's availability
EnvNext ==
    \/ init_redis
    \/ RedisFail
    \/ RedisRecover
    \/ Tick

\* calls of the session store
SessionNext ==
    \/ \E p \in Procs, e \in EnvelopeInputs : get_session_get(p, e)
    \/ \E p \in Procs : get_session_setex(p)
    \/ \E p \in Procs, e \in EnvelopeInputs : delete_session(p, e)

\* requests to the one-time-token routes
TokenNext ==
    \/ init_http_client
    \/ \E p \in Procs, f \in FilePaths, s \in SessionInputs :
           generate_one_time_token_hset(p, f, s)
    \/ \E p \in Procs : generate_one_time_token_expire(p)
    \/ \E p \in Procs, t \in TokenInputs : get_file_with_one_time_token_hgetall(p, t)
    \/ \E p \in Procs : get_file_with_one_time_token_delete(p)
    \/ \E p \in Procs, u \in UpstreamOutcomes, c \in ContentTypes :
           get_file_with_one_time_token_fetch(p, u, c)

\* the session store on its own
NextSession ==
    \/ EnvNext
    \/ \E p \in Procs, t \in MoodleTokens, u \in MoodleUrls : create_session(p, t, u)
    \/ SessionNext

SpecSession == Init /\ [][NextSession]_vars

\* requests to the login, logout and protected routes
RouteNext ==
    \/ \E p \in Procs, o \in LoginOutcomes, t \in MoodleTokens, u \in MoodleUrls :
           secure_login(p, o, t, u)
    \/ \E p \in Procs, c \in CookieInputs : secure_logout(p, c)
    \/ \E p \in Procs, c \in CookieInputs : get_current_session(p, c)
    \/ \E p \in Procs, c \in CookieInputs, f \in FilePaths :
           generate_one_time_token_gated(p, c, f)

\* the routes together with the session store they are written for
NextRoutes ==
    \/ EnvNext
    \/ \E p \in Procs, t \in MoodleTokens, u \in MoodleUrls :
           next_sid <= MaxIssuers /\ create_session(p, t, u)
    \/ SessionNext
    \/ RouteNext

SpecRoutes == Init /\ [][NextRoutes]_vars

\* the one-time tokens together with the sessions they are issued for
Next ==
    \/ EnvNext
    \/ \E p \in Procs, t \in MoodleTokens, u \in MoodleUrls :
           next_sid <= MaxIssuers /\ create_session(p, t, u)
    \/ SessionNext
    \/ TokenNext

Spec == Init /\ [][Next]_vars

\* a call of encode_param is about to be made
InitParams ==
    /\ StoreInit
    /\ call \in EncoderInputs
    /\ params = call.prior
    /\ dispatch = NoDispatch
    /\ outbound = <<>>
    /\ reply = NoReply

\* the call of encode_param
Encode ==
    /\ call.state = "called"
    /\ IF encode_param_raises(call.value, call.declared_type) = "none"
       THEN /\ params' = encode_param(params, call.name, call.value, call.declared_type)
            /\ call' = [call EXCEPT !.state = "returned"]
       ELSE /\ params' = params
            /\ call' = [call EXCEPT !.state = "raised"]
    /\ UNCHANGED <<now, redis_client, http_client, session_store, ot_store, next_sid,
                   next_tok, pc, req, resp, created, issued, fetched>>
    /\ UNCHANGED dispatch_vars

\* the parameter encoder on its own
NextParams == Encode

SpecParams == InitParams /\ [][NextParams]_vars

\* a dispatcher invocation has been received
InitDispatch ==
    /\ StoreInit
    /\ call = NoCall
    /\ params = NoParams
    /\ dispatch \in DispatchInputs
    /\ outbound = <<>>
    /\ reply = NoReply

\* handler(request, response, body) up to "await client.post(url, data=params)": the
\* request is rejected for want of a base URL, or the parameter set is built and the
\* upstream call is issued
handler ==
    /\ dispatch.state = "received"
    /\ IF handler_base_url(dispatch) = <<>>
       THEN /\ reply' = [NoReply EXCEPT !.status = 400, !.kind = "HTTPException",
                                        !.detail = "Moodle URL not provided"]
            /\ dispatch' = [dispatch EXCEPT !.state = "rejected"]
            /\ UNCHANGED <<params, outbound>>
       ELSE /\ params' = handler_params(dispatch)
            /\ outbound' = Append(outbound, upstream_call(dispatch))
            /\ reply' = [NoReply EXCEPT !.direct_method = upstream_call(dispatch).method]
            /\ dispatch' = [dispatch EXCEPT !.state = "awaiting"]
    /\ UNCHANGED <<now, redis_client, http_client, session_store, ot_store, next_sid,
                   next_tok, pc, req, resp, created, issued, fetched, call>>

\* the except clauses of handler: the HTTPException raised for an exception of the
\* upstream call (its answer carries none of the headers set on response)
handler_except(r) ==
    IF r.kind = "HTTPStatusError"
    THEN [NoReply EXCEPT !.status = r.status, !.kind = "HTTPException",
                         !.detail = r.payload]
    ELSE [NoReply EXCEPT !.status = 502, !.kind = "HTTPException",
                         !.detail = "Error contacting Moodle"]

\* a handler that would issue the call again after a transport failure
upstream_returns_retrying(r) ==
    /\ dispatch.state = "awaiting"
    /\ IF r.kind = "RequestError" /\ Len(outbound) < 2
       THEN /\ outbound' = Append(outbound, upstream_call(dispatch))
            /\ UNCHANGED <<dispatch, reply>>
       ELSE /\ outbound' = outbound
            /\ reply' = IF r.kind = "success"
                        THEN [reply EXCEPT !.status = 200, !.kind = "returned",
                                           !.body = r.payload]
                        ELSE handler_except(r)
            /\ dispatch' = [dispatch EXCEPT
                               !.state = CASE r.kind = "success" -> "Success"
                                           [] r.kind = "HTTPStatusError" -> "UpstreamError"
                                           [] OTHER -> "ConnectionError"]
    /\ UNCHANGED <<now, redis_client, http_client, session_store, ot_store, next_sid,
                   next_tok, pc, req, resp, created, issued, fetched, call, params>>

\* handler from the return of "await client.post" on: upstream answered r
upstream_returns(r) ==
    /\ dispatch.state = "awaiting"
    /\ IF r.kind = "success"
       THEN /\ reply' = [reply EXCEPT !.status = 200, !.kind = "returned",
                                      !.body = r.payload]
            /\ dispatch' = [dispatch EXCEPT !.state = "Success"]
       ELSE /\ reply' = handler_except(r)
            /\ dispatch' = [dispatch EXCEPT
                               !.state = IF r.kind = "HTTPStatusError" THEN "UpstreamError"
                                         ELSE "ConnectionError"]
    /\ UNCHANGED <<now, redis_client, http_client, session_store, ot_store, next_sid,
                   next_tok, pc, req, resp, created, issued, fetched, call, params,
                   outbound>>

\* the dispatcher on its own
NextDispatch ==
    \/ handler
    \/ \E r \in UpstreamReplies : upstream_returns(r)

SpecDispatch == InitDispatch /\ [][NextDispatch]_vars

\* the dispatcher with its upstream call always returning: "await client.post" ends
\* with an answer of upstream or with an exception of the client (its timeouts are
\* httpx.RequestError too), and a task that can run is run
SpecDispatchLive ==
    SpecDispatch /\ WF_vars(\E r \in UpstreamReplies : upstream_returns(r))

----------------------------------------------------------------------------
(* Properties of the one-time tokens, checked under Spec *)

\* the fields of a token record that issue stores
Bundle(rec) == [file_path |-> rec.file_path, moodle_url |-> rec.moodle_url,
                moodle_token |-> rec.moodle_token, session_id |-> rec.session_id]

\* the answer for a token that has no record
NotFound(r) == r.status = 404 /\ r.detail = "Token not found or expired"

\* the call ended because the backend could not be asked for the record
LookupFailed(r) == r.exc \in {"RuntimeError", "ConnectionError"} /\ ~r.bundle.present

\* C1: for every one-time token, whatever the interleaving of the consume calls made
\* with it, at most one of them finds the record and goes on to fetch the resource.
C1_AtMostOneFetch == \A t \in TokenIds : fetched[t] <= 1

\* C2: a consume of an issued token whose lookup comes before the token's 60 seconds
\* are over, and before any consume deleted it, goes on with exactly the bundle that
\* issue stored; a consume whose lookup comes after the token was deleted by an earlier
\* consume is answered NotFound.
C2_IssueThenConsume ==
    (resp.op = "consume" /\ resp.tok \in TokenIds /\ ~LookupFailed(resp)) =>
        LET i == issued[resp.tok]
        IN  /\ (resp.bundle.present \/ ~i.deleted) /\ resp.at < i.at + 60
                => resp.bundle.present /\ Bundle(resp.bundle) = Bundle(i.bundle)
            /\ ~resp.bundle.present /\ i.deleted => NotFound(resp)

\* C3: a consume whose lookup comes 60 seconds or more after the token was issued is
\* answered NotFound (unless the backend cannot be asked), and it sends no upstream
\* request.
C3_ExpiredTokenNotFound ==
    (resp.op = "consume" /\ resp.tok \in TokenIds /\ issued[resp.tok].ok
        /\ resp.at >= issued[resp.tok].at + 60) =>
        /\ ~resp.fetch
        /\ ~resp.bundle.present
        /\ LookupFailed(resp) \/ NotFound(resp)

\* C3 happens: a token nobody consumed is asked for after its 60 seconds, and the
\* answer is NotFound.
C3_Witness ==
    /\ resp.op = "consume" /\ resp.tok \in TokenIds
    /\ issued[resp.tok].ok /\ ~issued[resp.tok].deleted
    /\ resp.at >= issued[resp.tok].at + 60
    /\ NotFound(resp)

\* C4: every one-time-token record in the backend has an expiry, and the expiry is at
\* most 60 seconds away.
C4_TokenAlwaysExpires ==
    \A t \in TokenIds :
        ot_store[t].present => ot_store[t].exp /= NO_EXPIRY /\ ot_store[t].exp <= now + 60

\* C5: a consume of a token that was never issued, of a token an earlier consume
\* deleted, and of a token whose 60 seconds are over get one and the same answer,
\* 404 with the same body.
C5_UniformNotFound ==
    (resp.op = "consume" /\ ~LookupFailed(resp)) =>
        LET never == resp.tok \notin TokenIds
            consumed == resp.tok \in TokenIds /\ issued[resp.tok].deleted
                        /\ ~resp.bundle.present
            expired == resp.tok \in TokenIds /\ issued[resp.tok].ok
                       /\ resp.at >= issued[resp.tok].at + 60
        IN  never \/ consumed \/ expired => NotFound(resp)

\* C5 happens: a token is asked for again after a consume deleted it, within its 60
\* seconds, and the answer is the one of a token that never existed.
C5_Witness ==
    /\ resp.op = "consume" /\ resp.tok \in TokenIds
    /\ issued[resp.tok].deleted /\ ~resp.bundle.present
    /\ resp.at < issued[resp.tok].at + 60
    /\ NotFound(resp)

\* C6: once a token record has its expiry, no step changes the record or the expiry:
\* the record stays as it is until its own expiry instant is reached or a consume of
\* that token deletes it, whatever happens to the session that issued it.
C6_TokenExpiryFixed ==
    [][\A t \in TokenIds :
          (ot_store[t].present /\ ot_store[t].exp /= NO_EXPIRY) =>
              \/ ot_store'[t] = ot_store[t]
              \/ /\ ~ot_store'[t].present
                 /\ \/ now' >= ot_store[t].exp
                    \/ \E p \in Procs : /\ pc[p] = "consume_delete"
                                        /\ req[p].tok = t
                                        /\ pc'[p] \in {"idle", "consume_fetch"}]_vars

\* C6 happens: a consume gets the file with a token whose session is no longer in the
\* store, after a delete_session removed it.
C6_Witness ==
    /\ resp.op = "consume" /\ resp.status = 200 /\ resp.fetch
    /\ created[resp.bundle.session_id].done
    /\ ~session_store[resp.bundle.session_id].present
    /\ now < created[resp.bundle.session_id].at + SESSION_MAX_AGE

----------------------------------------------------------------------------
(* Properties of the session store, checked under SpecSession *)

\* the age of an envelope at the lookup of the call that answered r
EnvelopeAge(r) == r.at - r.env.ts

\* C7: a get with the envelope of a session returns, when it returns a session, the
\* upstream token and base URL that create was called with for that session, whatever
\* was done to other sessions; it returns no session once the envelope is older than
\* SESSION_MAX_AGE, also when gets have refreshed the record; and when it returns no
\* session without anything having failed, the record is not in the store.
C7_CreateThenGet ==
    resp.op = "get" =>
        /\ resp.session /= NoSession =>
               /\ resp.env.sid \in SessionIds /\ created[resp.env.sid].done
               /\ resp.env = EnvelopeOf(resp.env.sid)
               /\ resp.session.session_id = resp.env.sid
               /\ resp.session.moodle_token = created[resp.env.sid].moodle_token
               /\ resp.session.moodle_url = created[resp.env.sid].moodle_url
        /\ EnvelopeAge(resp) > SESSION_MAX_AGE => resp.session = NoSession
        /\ resp.session = NoSession /\ resp.exc = "none" =>
               ~session_store[resp.env.sid].present

\* C7 happens: two sessions hold different upstream tokens, and a get with the genuine
\* envelope of one of them, older than SESSION_MAX_AGE, returns no session although
\* earlier gets kept its record in the store.
C7_Witness ==
    /\ resp.op = "get" /\ resp.session = NoSession
    /\ resp.env.sid \in SessionIds /\ created[resp.env.sid].done
    /\ resp.env = EnvelopeOf(resp.env.sid)
    /\ EnvelopeAge(resp) > SESSION_MAX_AGE
    /\ session_store[resp.env.sid].present
    /\ \E s \in SessionIds : /\ created[s].done
                             /\ created[s].moodle_token
                                    /= created[resp.env.sid].moodle_token

\* C8 as stated: no session record is in the store more than SESSION_MAX_AGE after it
\* was created.
C8_LifetimeBoundedFromCreation ==
    \A s \in SessionIds :
        session_store[s].present => now - session_store[s].created_at <= SESSION_MAX_AGE

\* C8 as amended: no session record is in the store SESSION_MAX_AGE or more after it
\* was last written, by create or by the refresh of a get; its expiry is never later
\* than SESSION_MAX_AGE after its last_accessed.
C8_LifetimeBoundedFromLastAccess ==
    \A s \in SessionIds :
        session_store[s].present =>
            /\ session_store[s].exp <= session_store[s].last_accessed + SESSION_MAX_AGE
            /\ now < session_store[s].exp

\* C8 happens: a record that gets have refreshed is in the store more than
\* SESSION_MAX_AGE after its creation.
C8_Witness ==
    \E s \in SessionIds :
        /\ session_store[s].present
        /\ now - session_store[s].created_at > SESSION_MAX_AGE
        /\ now - session_store[s].last_accessed < SESSION_MAX_AGE

\* C9: the step in which a get of a live session returns the session writes the record
\* with an expiry of SESSION_MAX_AGE from now and last_accessed = now, and with the
\* upstream token, base URL and created_at the record had.
C9_GetRefreshes ==
    [][\A p \in Procs :
          (/\ pc[p] = "get_setex" /\ pc'[p] = "idle"
           /\ resp'.session /= NoSession
           /\ session_store[req[p].sid].present) =>
              LET old == session_store[req[p].sid]
                  new == session_store'[req[p].sid]
              IN  /\ new.present
                  /\ new.exp = now + SESSION_MAX_AGE
                  /\ new.last_accessed = now
                  /\ new.moodle_token = old.moodle_token
                  /\ new.moodle_url = old.moodle_url
                  /\ new.created_at = old.created_at]_vars

\* C9 happens: a get returned a session some time after its creation, and the record
\* carries the time of that get.
C9_Witness ==
    /\ resp.op = "get" /\ resp.session /= NoSession
    /\ session_store[resp.session.session_id].present
    /\ session_store[resp.session.session_id].last_accessed = now
    /\ session_store[resp.session.session_id].exp = now + SESSION_MAX_AGE
    /\ now > session_store[resp.session.session_id].created_at

\* C10: no exception leaves get; whenever an exception is raised inside it (bad
\* signature, expired signature, backend not initialised or unreachable) and whenever
\* its lookup finds no record, it returns no session; and a get that returns no session
\* leaves the store as it was.
C10_GetNeverRaises ==
    [][resp'.op = "get" =>
          /\ resp'.raised = "none"
          /\ resp'.exc /= "none" => resp'.session = NoSession
          /\ (/\ pc[resp'.task] = "idle"
              /\ loads(resp'.env, SESSION_MAX_AGE, now).exc = "none"
              /\ ~session_store[resp'.env.sid].present)
                 => resp'.session = NoSession
          /\ resp'.session = NoSession => session_store' = session_store]_vars

\* C10 happens: the backend fails under a get that holds a valid envelope, and the get
\* returns no session.
C10_Witness ==
    /\ resp.op = "get" /\ resp.session = NoSession /\ resp.raised = "none"
    /\ resp.exc = "ConnectionError"
    /\ resp.env.sid \in SessionIds /\ created[resp.env.sid].done
    /\ resp.env = EnvelopeOf(resp.env.sid)

\* C11: a delete called with the envelope create returned for a session reports, when
\* the backend answers, exactly whether the session's record was in the store, and
\* leaves the store without that record; also when the envelope is older than
\* SESSION_MAX_AGE while refreshes kept the record in the store.
C11_DeleteReportsAndRemoves ==
    [][(/\ resp'.op = "delete"
        /\ resp'.env.sid \in SessionIds /\ created[resp'.env.sid].done
        /\ resp'.env = EnvelopeOf(resp'.env.sid)
        /\ resp'.exc \notin {"RuntimeError", "ConnectionError"}) =>
           /\ resp'.deleted = session_store[resp'.env.sid].present
           /\ ~session_store'[resp'.env.sid].present]_vars

----------------------------------------------------------------------------
(* Properties of the routes over the session store, checked under SpecRoutes *)

\* the envelope resolves to a record of the store at this instant
Resolves(e) ==
    /\ loads(e, SESSION_MAX_AGE, now).exc = "none"
    /\ e.sid \in SessionIds
    /\ session_store[e.sid].present

\* C12: when a login whose upstream authentication returned a token has answered, the
\* store holds a session record with that token and that base URL, and the cookie
\* value of the answer is an envelope that resolves to this record.
C12_LoginCreatesSession ==
    (resp.op = "login" /\ resp.success) =>
        /\ resp.set_cookie
        /\ Resolves(resp.cookie)
        /\ session_store[resp.cookie.sid].moodle_token = resp.moodle_token
        /\ session_store[resp.cookie.sid].moodle_url = resp.moodle_url

\* C13: when a logout that carried a cookie resolving to a session record has
\* answered, that record is not in the store.
C13_LogoutRemovesSession ==
    [][(resp'.op = "logout" /\ Resolves(resp'.env)) =>
          ~session_store'[resp'.env.sid].present]_vars

\* C14: the gate answers 401 to every request whose cookie is missing or does not
\* resolve to a session record, and whatever it hands to the route body is the
\* SessionData of a record in the store.
C14_GateRejectsUnauthenticated ==
    [][resp'.op = "gate" =>
          /\ (resp'.env = NoCookie \/ ~Resolves(resp'.env)) => resp'.status = 401
          /\ resp'.status /= 401 => resp'.returned = "SessionData"]_vars

----------------------------------------------------------------------------
(* Concurrency of the session store, checked under SpecSession *)

\* C15: whatever the interleaving of gets, deletes and expiry on a session, a step
\* that leaves its record in the store leaves the record's upstream token, base URL
\* and created_at as they were, and no step puts back the record of a session whose
\* record a delete or the expiry removed.
C15_RacesOnlyChangeTtl ==
    [][\A s \in SessionIds :
          /\ (session_store[s].present /\ session_store'[s].present) =>
                 /\ session_store'[s].moodle_token = session_store[s].moodle_token
                 /\ session_store'[s].moodle_url = session_store[s].moodle_url
                 /\ session_store'[s].created_at = session_store[s].created_at
          /\ (created[s].done /\ ~session_store[s].present) =>
                 ~session_store'[s].present]_vars

----------------------------------------------------------------------------
(* Properties of the parameter encoder, checked under SpecParams *)

\* the call has returned and its declared type is the given one, in any case
Returned(dtype) ==
    /\ call.state = "returned"
    /\ call.declared_type \in {dtype, upper(dtype), capitalize(dtype)}

\* params holds what it held before the call and, besides, exactly the keys of written
WritesExactly(written) ==
    /\ DOMAIN params = DOMAIN call.prior \cup DOMAIN written
    /\ \A k \in DOMAIN written : params[k] = written[k]
    /\ \A k \in DOMAIN call.prior \ DOMAIN written : params[k] = call.prior[k]

\* the key name[i] of the element at index i
IndexKey(i) == Bracket(call.name, str_int(i))

\* the values that are false in Python, among those that are no str
Falsy == {None, BoolValue(FALSE), IntValue(0), FloatValue(0), ListValue(<<>>),
          DictValue(<<>>)}

\* C16: after encode with declared type bool (in any case) the parameter name holds
\* the number 1 or the number 0 and nothing else was written; it holds 1 exactly when
\* the value is one of the words 1, true, on, yes in any case and padding, or a value
\* that is no str and is true in Python.
C16_BoolIsOneOrZero ==
    Returned(BOOL) =>
        /\ \E n \in {0, 1} : WritesExactly(call.name :> IntValue(n))
        /\ call.origin.kind = "word" =>
               (params[call.name] = IntValue(1) <=> call.origin.word \in TruthyWords)
        /\ T(call.value) = "str" /\ call.origin.kind /= "word" =>
               (params[call.name] = IntValue(1) <=> strip(V(call.value)) = <<"1">>)
        /\ T(call.value) /= "str" =>
               (params[call.name] = IntValue(1) <=> call.value \notin Falsy)

\* C16 happens: the word true, written in upper case and padded with blanks, was
\* encoded as the number 1 under a declared type written BOOL.
C16_Witness ==
    /\ call.state = "returned" /\ call.declared_type = upper(BOOL)
    /\ call.origin.kind = "word" /\ call.origin.word = <<"t", "r", "u", "e">>
    /\ call.origin.form = "upper"
    /\ Len(V(call.value)) > 4
    /\ params[call.name] = IntValue(1)

\* C17: after encode with declared type list of the same elements given as a native
\* sequence, as a JSON array string or as a comma-separated string, params holds
\* name[i] = element i for every index i, in element order, and nothing else was
\* written: the three forms give one and the same parameter set.
C17_ListFormsAgree ==
    (Returned(LIST) /\ call.origin.kind = "list") =>
        LET elems == call.origin.elems
        IN  WritesExactly([k \in {IndexKey(i) : i \in 0..(Len(elems) - 1)} |->
                              elems[(CHOOSE i \in 0..(Len(elems) - 1) : IndexKey(i) = k) + 1]])

\* C17 happens: two different elements given as a comma-separated string were encoded
\* under name[0] and name[1].
C17_Witness ==
    /\ Returned(LIST) /\ call.origin.kind = "list" /\ call.origin.form = "csv"
    /\ Len(call.origin.elems) = 2
    /\ call.origin.elems[1] /= call.origin.elems[2]
    /\ T(call.value) = "str"
    /\ params[IndexKey(0)] = call.origin.elems[1]
    /\ params[IndexKey(1)] = call.origin.elems[2]

\* the key name[i][k] of field k of the element at index i
FieldKey(i, k) == Bracket(IndexKey(i), k)

\* the number a boolean is sent as
AsNumber(v) ==
    IF v = BoolValue(TRUE) THEN IntValue(1)
    ELSE IF v = BoolValue(FALSE) THEN IntValue(0)
    ELSE v

\* the field of a keyed structure with key k
FieldOf(items, k) == items[CHOOSE n \in 1..Len(items) : items[n][1] = k][2]

\* C18: after encode with declared type list of a list whose element i is a keyed
\* structure (given as a native sequence or as a JSON array string), params holds
\* name[i][k] for every field k of that element, with a boolean field as 1 or 0 and
\* every other field as it was given, holds no key name[i] for it, holds name[i] for
\* an element that is no keyed structure, and nothing else was written.
C18_ListOfStructures ==
    (Returned(LIST) /\ call.origin.kind = "structs") =>
        LET elems == call.origin.elems
            at(i) == elems[i + 1]
            indices == 0..(Len(elems) - 1)
            plain == {i \in indices : T(at(i)) /= "dict"}
        IN  /\ \A i \in plain : IndexKey(i) \in DOMAIN params /\ params[IndexKey(i)] = at(i)
            /\ \A i \in indices \ plain :
                  /\ IndexKey(i) \notin DOMAIN params
                  /\ \A n \in 1..Len(V(at(i))) :
                        LET k == V(at(i))[n][1]
                        IN  /\ FieldKey(i, k) \in DOMAIN params
                            /\ params[FieldKey(i, k)] = AsNumber(V(at(i))[n][2])
            /\ \A key \in DOMAIN params \ DOMAIN call.prior :
                  \/ \E i \in plain : key = IndexKey(i)
                  \/ \E i \in indices \ plain :
                        \E n \in 1..Len(V(at(i))) : key = FieldKey(i, V(at(i))[n][1])
            /\ \A key \in DOMAIN call.prior : key \in DOMAIN params
                                              /\ params[key] = call.prior[key]

\* C18 happens: [{"id":1,"done":true}], given as a JSON array string under opts, was
\* encoded as exactly opts[0][id] = 1 and opts[0][done] = 1.
C18_Witness ==
    /\ Returned(LIST) /\ call.origin.kind = "structs" /\ call.origin.form = "json"
    /\ call.origin.elems = <<DictValue(<<<<KeyId, IntValue(1)>>,
                                         <<KeyDone, BoolValue(TRUE)>>>>)>>
    /\ call.prior = NoParams
    /\ params = (<<"o", "p", "t", "s", "[", "0", "]", "[", "i", "d", "]">> :> IntValue(1))
                @@ (<<"o", "p", "t", "s", "[", "0", "]", "[", "d", "o", "n", "e", "]">>
                        :> IntValue(1))

\* the declared type is none of the given ones, in any case
DeclaredOutside(dtypes) ==
    \A d \in dtypes : call.declared_type \notin {d, upper(d), capitalize(d)}

\* a keyed structure was encoded as one key name[k] per field, the fields as they were
\* given, and nothing else was written, the bare name included
Flattened ==
    /\ WritesExactly([key \in {Bracket(call.name, V(call.value)[n][1]) :
                                  n \in 1..Len(V(call.value))} |->
                         V(call.value)[CHOOSE n \in 1..Len(V(call.value)) :
                                          Bracket(call.name, V(call.value)[n][1]) = key][2]])
    /\ call.name \notin DOMAIN params

\* C19 as stated: after encode of a keyed structure with any declared type other than
\* list, params holds one key name[k] per field with the field's value unchanged, and
\* no key equal to the bare name.
C19_StructureFlattenedAnyType ==
    (call.state = "returned" /\ T(call.value) = "dict" /\ DeclaredOutside({LIST})) =>
        Flattened

\* C19 as amended: after encode of a keyed structure with a declared type other than
\* list, bool, int, float and double, params holds one key name[k] per field with the
\* field's value unchanged (a boolean stays a boolean) and no key equal to the bare
\* name; with declared bool the bare name holds 1 or 0, and with declared int, float
\* or double the bare name holds the structure itself.
C19_StructureFlattenedUntyped ==
    (call.state = "returned" /\ T(call.value) = "dict") =>
        /\ DeclaredOutside({LIST, BOOL, INT, FLOAT, DOUBLE}) => Flattened
        /\ ~DeclaredOutside({BOOL}) =>
               \E n \in {0, 1} : WritesExactly(call.name :> IntValue(n))
        /\ ~DeclaredOutside({INT, FLOAT, DOUBLE}) =>
               WritesExactly(call.name :> call.value)

\* C19 happens: a structure with the field done = true was encoded with declared type
\* dict as opts[id] and opts[done], the boolean unchanged.
C19_Witness ==
    /\ call.state = "returned" /\ call.declared_type = <<"d", "i", "c", "t">>
    /\ T(call.value) = "dict" /\ Len(V(call.value)) = 2
    /\ FieldOf(V(call.value), KeyDone) = BoolValue(TRUE)
    /\ params[Bracket(call.name, KeyDone)] = BoolValue(TRUE)
    /\ Bracket(call.name, KeyId) \in DOMAIN params
    /\ call.name \notin DOMAIN params

\* the elements the stated rule gives for a str: none for the empty string, the parsed
\* array if it parses as a JSON array, else the trimmed parts if it contains a comma,
\* else the whole string
StatedElements(raw) ==
    LET s == strip(raw)
    IN  IF s = <<>> THEN <<>>
        ELSE IF json_loads(s).ok /\ T(json_loads(s).val) = "list" THEN V(json_loads(s).val)
        ELSE IF Contains(s, ",") THEN comma_parts(s)
        ELSE <<StrValue(s)>>

\* C20: after encode with declared type list of a str, params holds the elements that
\* the stated rule of list normalization gives for it (as the whole string, the
\* string with or without its surrounding blanks).
C20_ListNormalization ==
    (Returned(LIST) /\ T(call.value) = "str") =>
        \/ params = encode_items(call.prior, call.name, StatedElements(V(call.value)), 0)
        \/ /\ ~Contains(V(call.value), ",")
           /\ params = encode_items(call.prior, call.name, <<call.value>>, 0)

\* the types of the values the upstream takes: str, int, float (a boolean goes as the
\* int 1 or 0)
Primitive == {"str", "int", "float"}

\* C21: after encode, with any declared type and any value, every value of params is a
\* str, an int or a float: no boolean, no None, no keyed structure and no sequence is
\* stored as a value.
C21_ValuesArePrimitive ==
    call.state = "returned" => \A key \in DOMAIN params : T(params[key]) \in Primitive

\* C22: encode_param never raises, whatever the declared type and the value; and
\* after encode with declared type int, float or double of a value that int() or
\* float() does not convert, the parameter name holds the value unchanged and nothing
\* else was written.
C22_EncodeNeverFails ==
    /\ call.state /= "raised"
    /\ (Returned(INT) /\ ~int(call.value).ok) => WritesExactly(call.name :> call.value)
    /\ ((Returned(FLOAT) \/ Returned(DOUBLE)) /\ ~float(call.value).ok) =>
           WritesExactly(call.name :> call.value)

\* C22 happens: the str "a", no integer literal, was encoded with declared type int
\* and is held unchanged under the parameter name.
C22_Witness ==
    /\ Returned(INT) /\ call.value = StrValue(<<"a">>)
    /\ int(call.value) = Raised("ValueError")
    /\ params[call.name] = StrValue(<<"a">>)

----------------------------------------------------------------------------
(* Properties of the proxy dispatcher, checked under SpecDispatch *)

\* the method GET as the upstream call names it
GET == <<"G", "E", "T">>

\* the handler has issued its upstream call; the call, its path and its parameter set
Sent == Len(outbound) > 0
SentPath == handler_ep_path(dispatch.endpoint_path)
SentParams == outbound[1].params

\* the target is the remote-procedure path; the target is the authentication endpoint
\* login/token.php, of a Moodle at the root of its host or in the directory /x
ToRestServer == SentPath = REST_SERVER_PHP
ToLoginToken == SentPath \in {LOGIN_TOKEN_PHP, <<"/", "x">> \o LOGIN_TOKEN_PHP}

\* the request carries the access token t1 in a Bearer header
BearerT1 == dispatch.authorization = BEARER_T1

\* C23: the upstream call of an invocation for the remote-procedure path
\* /webservice/rest/server.php with no declared parameters and the access token t1 in
\* a Bearer header has exactly the parameters wstoken = t1, wsfunction = the configured
\* function name and moodlewsrestformat = json.
C23_SiteInfoParams ==
    (Sent /\ ToRestServer /\ dispatch.query_params = <<>> /\ BearerT1) =>
        /\ DOMAIN SentParams = {WSTOKEN, WSFUNCTION, MOODLEWSRESTFORMAT}
        /\ SentParams[WSTOKEN] = StrValue(TOKEN_T1)
        /\ SentParams[WSFUNCTION] = StrValue(dispatch.function)
        /\ SentParams[MOODLEWSRESTFORMAT] = StrValue(JSON)

\* C23 happens: the call for core_webservice_get_site_info, declared with method get,
\* was issued with the three parameters and upstream has answered with JSON.
C23_Witness ==
    /\ dispatch.state = "Success" /\ reply.body = "json"
    /\ ToRestServer /\ dispatch.query_params = <<>> /\ BearerT1
    /\ dispatch.method = LOWER_GET
    /\ dispatch.function = SITE_INFO
    /\ Len(outbound) = 1
    /\ SentParams[WSFUNCTION] = StrValue(SITE_INFO)
    /\ SentParams[WSTOKEN] = StrValue(TOKEN_T1)

\* the keys of the parameter set that belong to the declared parameter name: the bare
\* name and the composite names name[...]
KeysOf(ps, name) == {k \in DOMAIN ps : k = name \/ startswith(k, name \o <<"[">>)}

\* the names the dispatcher injects
Injected == {WSTOKEN, WSFUNCTION, MOODLEWSRESTFORMAT}

\* C24: for every declared parameter (of a name the dispatcher does not inject) whose
\* value in the body is absent or the empty string, the parameter set of the upstream
\* call holds the parameter with the empty string as its value if it is flagged
\* send_if_empty, and holds no key of that parameter otherwise.
C24_EmptyValues ==
    Sent =>
        \A n \in 1..Len(dispatch.query_params) :
            LET param == dispatch.query_params[n]
                value == get(dispatch.body, param.name, param.default)
            IN  (param.name \notin Injected /\ value \in {None, StrValue(<<>>)}) =>
                    IF param.send_if_empty
                    THEN /\ KeysOf(SentParams, param.name) = {param.name}
                         /\ SentParams[param.name] = StrValue(<<>>)
                    ELSE KeysOf(SentParams, param.name) = {}

\* no base URL is given: MOODLE_URL is not set (or is the marker *) and the body has no
\* moodle_url or an empty one
NoBaseUrl ==
    /\ dispatch.MOODLE_URL \in {<<>>, <<"*">>}
    /\ get(dispatch.body, MOODLE_URL_FIELD, None) \in {None, StrValue(<<>>)}

\* no access credential is supplied: no Authorization header and no wstoken in the query
NoCredential ==
    /\ dispatch.authorization = <<>>
    /\ dispatch.wstoken \in {None, StrValue(<<>>)}

\* C25: an invocation with no base URL (neither in the environment nor in the request),
\* or with no access credential for a path other than the authentication endpoint, is
\* answered 400 and issues no upstream call.
C25_MissingConfigurationRejected ==
    (dispatch.state /= "received" /\ (NoBaseUrl \/ (NoCredential /\ ~ToLoginToken))) =>
        /\ reply.status = 400
        /\ outbound = <<>>

\* the Authorization headers that are a well-formed Bearer header for the token t1, and
\* the wstoken query parameters that hold the token t2
BearerHeaders == {BEARER_T1, BEARER_LOOSE}
QueryTokens == {StrValue(TOKEN_T2), StrValue(TOKEN_T2_PADDED)}

\* the token the request stands for: that of a well-formed Bearer header, else that of
\* the query parameter, else none
StatedToken ==
    IF dispatch.authorization \in BearerHeaders THEN TOKEN_T1
    ELSE IF dispatch.wstoken \in QueryTokens THEN TOKEN_T2
    ELSE <<>>

\* no declared parameter has the name wstoken
NoDeclaredWstoken ==
    \A n \in 1..Len(dispatch.query_params) : dispatch.query_params[n].name /= WSTOKEN

\* C26: the token resolved from a request is the token of its Authorization header when
\* that is a well-formed Bearer header, whatever the wstoken query parameter holds; it
\* is the query parameter when there is no well-formed Bearer header; it is the empty
\* string when there is neither.  The upstream call for a path other than the
\* authentication endpoint carries that token under wstoken, and no wstoken when it is
\* empty.
C26_BearerBeforeQuery ==
    /\ resolve_token_from_request(dispatch.authorization, dispatch.wstoken) = StatedToken
    /\ (Sent /\ ~ToLoginToken /\ NoDeclaredWstoken) =>
           IF StatedToken = <<>> THEN WSTOKEN \notin DOMAIN SentParams
           ELSE /\ WSTOKEN \in DOMAIN SentParams
                /\ SentParams[WSTOKEN] = StrValue(StatedToken)

\* C26 happens: a request with the header "Bearer t1" and the query parameter
\* wstoken=t2 was dispatched with wstoken = t1.
C26_Witness ==
    /\ Sent /\ ~ToLoginToken
    /\ dispatch.authorization = BEARER_T1
    /\ dispatch.wstoken = StrValue(TOKEN_T2)
    /\ SentParams[WSTOKEN] = StrValue(TOKEN_T1)

\* C27: the upstream call for a path other than the authentication endpoint carries the
\* resolved access token under wstoken (also in place of a declared parameter of that
\* name); the upstream call for the authentication endpoint login/token.php carries no
\* resolved token, whatever Authorization header and wstoken query parameter the
\* request has: it has no wstoken at all, or that of a declared parameter of that name,
\* which is neither of the request's tokens.
C27_TokenNotSentToLogin ==
    Sent =>
        IF ToLoginToken
        THEN \/ WSTOKEN \notin DOMAIN SentParams
             \/ /\ ~NoDeclaredWstoken
                /\ SentParams[WSTOKEN] \notin {StrValue(TOKEN_T1), StrValue(TOKEN_T2)}
        ELSE StatedToken /= <<>> =>
                 /\ WSTOKEN \in DOMAIN SentParams
                 /\ SentParams[WSTOKEN] = StrValue(StatedToken)

\* C27 happens: a request with the header "Bearer t1" for /login/token.php was
\* dispatched without wstoken, and upstream has answered.
C27_Witness ==
    /\ dispatch.state = "Success"
    /\ dispatch.endpoint_path = LOGIN_TOKEN_PHP
    /\ dispatch.authorization = BEARER_T1
    /\ Len(outbound) = 1
    /\ WSTOKEN \notin DOMAIN SentParams

\* the declared parameter with the given name, if there is one, and the value the body
\* gives it
DeclaredAs(name) ==
    {n \in 1..Len(dispatch.query_params) : dispatch.query_params[n].name = name}
Supplied(name) == get(dispatch.body, name, None)

\* the value injected for wsfunction and for moodlewsrestformat
InjectedDefault(name) ==
    IF name = WSFUNCTION THEN StrValue(dispatch.function) ELSE StrValue(JSON)

\* C28: the upstream call for the remote-procedure path carries wsfunction and
\* moodlewsrestformat; each holds the value the body supplied for a declared parameter
\* of that name, unchanged, when one was supplied, and otherwise the injected default
\* (the function name, json), unless the parameter is declared send_if_empty, which
\* sends it empty.  No other path gets either parameter injected.
C28_SuppliedValuesKept ==
    Sent =>
        \A name \in {WSFUNCTION, MOODLEWSRESTFORMAT} :
            IF DeclaredAs(name) /= {} /\ Supplied(name) \notin {None, StrValue(<<>>)}
            THEN /\ name \in DOMAIN SentParams
                 /\ SentParams[name] = Supplied(name)
            ELSE IF \E n \in DeclaredAs(name) : dispatch.query_params[n].send_if_empty
            THEN name \in DOMAIN SentParams /\ SentParams[name] = StrValue(<<>>)
            ELSE IF ToRestServer
            THEN name \in DOMAIN SentParams /\ SentParams[name] = InjectedDefault(name)
            ELSE name \notin DOMAIN SentParams

\* C28 happens: the body supplied wsfunction = mine for the remote-procedure path; the
\* call carries wsfunction = mine and the injected moodlewsrestformat = json.
C28_Witness ==
    /\ Sent /\ ToRestServer
    /\ DeclaredAs(WSFUNCTION) /= {}
    /\ Supplied(WSFUNCTION) = StrValue(MINE)
    /\ SentParams[WSFUNCTION] = StrValue(MINE)
    /\ SentParams[MOODLEWSRESTFORMAT] = StrValue(JSON)
    /\ dispatch.function /= MINE

\* the method declared for the endpoint, in upper case
DeclaredMethod ==
    IF dispatch.method \in {LOWER_GET, GET} THEN GET ELSE POST

\* C29: the upstream call is issued with the method declared for the endpoint, the
\* parameters in the query string for GET and in the form body for POST; and the
\* X-Moodle-Direct-Method header of the answer names the method of the call that was
\* issued.
C29_DeclaredMethodUsed ==
    Sent =>
        /\ outbound[1].method = DeclaredMethod
        /\ outbound[1].encoding = IF DeclaredMethod = GET THEN "query" ELSE "form"
        /\ reply.kind = "returned" => reply.direct_method = outbound[1].method

----------------------------------------------------------------------------
(* Properties of the upstream failures of the routes, checked under SpecRoutes *)

\* C30: the answer of a route whose upstream call failed at transport level (an
\* httpx.RequestError) has status 502, and the answer of a route whose upstream call
\* was answered with an error status (an httpx.HTTPStatusError) has that status.
C30_TransportFailureIs502 ==
    /\ resp.exc = "RequestError" => resp.status = 502
    /\ resp.exc = "HTTPStatusError" => resp.status = UpstreamErrorStatus

----------------------------------------------------------------------------
(* Course of a dispatcher invocation, checked under SpecDispatchLive *)

\* the three endings of an invocation whose upstream call was issued, and the failures
Ended == {"Success", "UpstreamError", "ConnectionError"}
Failed == {"UpstreamError", "ConnectionError"}

\* the ending goes with the answer: a returned payload, the status of upstream, 502
EndingMatchesReply ==
    /\ dispatch.state = "Success" => reply.kind = "returned"
    /\ dispatch.state = "UpstreamError" =>
           reply.kind = "HTTPException" /\ reply.status \in UpstreamStatuses
    /\ dispatch.state = "ConnectionError" =>
           reply.kind = "HTTPException" /\ reply.status = 502
           /\ reply.detail = "Error contacting Moodle"

\* an invocation goes from its parameters to the upstream call and from there to one
\* ending, issues one upstream call at most, and issues none once it has ended
OneCallNoRetry ==
    /\ [](Len(outbound) <= 1 /\ EndingMatchesReply)
    /\ [](dispatch.state \in Ended \cup {"awaiting"} => Len(outbound) = 1)
    /\ [][/\ dispatch.state = "received" => dispatch'.state \in {"awaiting", "rejected"}
          /\ dispatch.state = "awaiting" => dispatch'.state \in Ended
          /\ dispatch.state \in Ended \cup {"rejected"} =>
                 dispatch' = dispatch /\ outbound' = outbound]_vars

\* C31 as stated: every dispatcher invocation goes through the encoding of its
\* parameters to the upstream call and ends in exactly one of Success, UpstreamError
\* and ConnectionError; it issues at most one upstream call, and none after a failure.
C31_EveryInvocationEndsAfterUpstream ==
    /\ OneCallNoRetry
    /\ [](dispatch.state /= "received" => dispatch.state \in Ended \cup {"awaiting"})
    /\ dispatch.state = "awaiting" ~> dispatch.state \in Ended

\* C31: every dispatcher invocation either is rejected with 400 for want of a base URL,
\* before any upstream call, or goes through the encoding of its parameters to the
\* upstream call and ends in exactly one of Success, UpstreamError and
\* ConnectionError; it issues at most one upstream call, and none after a failure.
C31_InvocationEndsOrIsRejected ==
    /\ OneCallNoRetry
    /\ [](dispatch.state /= "received" =>
              dispatch.state \in Ended \cup {"awaiting", "rejected"})
    /\ [](dispatch.state = "rejected" =>
              outbound = <<>> /\ reply.status = 400 /\ NoBaseUrl)
    /\ dispatch.state = "awaiting" ~> dispatch.state \in Ended

\* C31 witness: the upstream call of an invocation failed at transport level, the
\* invocation has ended in ConnectionError with the one call it issued.
C31_Witness ==
    /\ dispatch.state = "ConnectionError"
    /\ Len(outbound) = 1
    /\ reply.status = 502

----------------------------------------------------------------------------
(* Properties of the one-time file answer, checked under Spec *)

\* the one-time file route answered with the file
FileAnswered == resp.op = "consume" /\ resp.status = 200 /\ resp.fetch

\* C32: the answer of the one-time file route that carries the file has a Cache-Control
\* header forbidding caches, and as content type the Content-Type header of upstream,
\* or the type inferred from the extension of the file path when upstream gave no
\* Content-Type or the generic application/octet-stream.
C32_ContentTypeWithFallback ==
    FileAnswered =>
        /\ resp.cache_control = NO_CACHE
        /\ resp.media_type = guess_content_type(resp.bundle.file_path, resp.content_type)

----------------------------------------------------------------------------
(* Properties of the gated issue route, checked under SpecRoutes *)

\* the token record holds the data of a session record of the store
HoldsSession(rec) ==
    /\ rec.session_id \in SessionIds
    /\ session_store[rec.session_id].present
    /\ rec.moodle_token = session_store[rec.session_id].moodle_token
    /\ rec.moodle_url = session_store[rec.session_id].moodle_url

----------------------------------------------------------------------------
(* Properties of the record a get returns, checked under SpecSession *)

\* check_session, secure_auth.py line 140: the session_age of its answer
session_age(session) == session.last_accessed - session.created_at

\* C34: the record a successful get returns carries the time of that get as its
\* last-access time, so that the session_age computed from it, last_accessed minus
\* created_at, is the time elapsed since the session was created.
C34_ReturnedRecordIsRefreshed ==
    (resp.op = "get" /\ resp.session /= NoSession) =>
        /\ resp.session.last_accessed = now
        /\ session_age(resp.session) = now - created[resp.session.session_id].at

----------------------------------------------------------------------------
(* Properties of the first consume of a token, checked under Spec *)

\* C35: whatever file_path the issue request gave (the empty string too), the consume
\* that looks a token up within its 60 seconds, before any consume deleted it, goes on
\* with the bundle and leaves no record of the token; and no consume that found the
\* backend answering ends with an error other than NotFound while the record of its
\* token is in the store.
C35_FirstConsumeDestroys ==
    (/\ resp.op = "consume" /\ resp.tok \in TokenIds
     /\ resp.exc /= "ConnectionError" /\ ~LookupFailed(resp)) =>
        LET i == issued[resp.tok]
        IN  /\ (i.ok /\ resp.at < i.at + 60 /\ (resp.bundle.present \/ ~i.deleted)) =>
                   /\ resp.bundle.present
                   /\ Bundle(resp.bundle) = Bundle(i.bundle)
                   /\ ~ot_store[resp.tok].present
            /\ (resp.status /= 200 /\ ~NotFound(resp)) => ~ot_store[resp.tok].present

----------------------------------------------------------------------------
(* Order of delete and fetch in the one-time file route, checked under Spec *)

\* the consume went on with a bundle and ended without the file: upstream answered
\* with an error status, could not be reached, or the HTTP client was not there
FetchFailed(r) ==
    /\ r.op = "consume" /\ r.bundle.present
    /\ r.exc \in {"HTTPStatusError", "RequestError", "RuntimeError"}

\* C36: a consume sends its upstream request only after its own delete of the token
\* record went through, so when the request is sent the store holds no record of the
\* token; a consume that ended without the file after its delete leaves no record; and
\* once the record of a token was deleted it never comes back and no lookup finds it.
C36_DeleteBeforeFetch ==
    /\ [][\A p \in Procs :
             /\ (pc'[p] = "consume_fetch" /\ pc[p] /= "consume_fetch") =>
                    /\ pc[p] = "consume_delete"
                    /\ ~ot_store'[req'[p].tok].present
                    /\ issued'[req'[p].tok].deleted
             /\ \A t \in TokenIds :
                    /\ (req[p].tok = t /\ fetched'[t] > fetched[t]) =>
                           ~ot_store[t].present
                    /\ issued[t].deleted =>
                           /\ ~ot_store'[t].present
                           /\ ~(pc[p] = "idle" /\ pc'[p] = "consume_delete"
                                /\ req'[p].tok = t)]_vars
    /\ [](FetchFailed(resp) => ~ot_store[resp.tok].present)
    /\ [](\A t \in TokenIds : fetched[t] > 0 => issued[t].deleted)

\* C36 witness: within the 60 seconds of its token a consume deleted the record, sent
\* the upstream request and could not reach upstream; the store holds no record of the
\* token.
C36_Witness ==
    /\ FetchFailed(resp) /\ resp.fetch /\ resp.exc = "RequestError"
    /\ resp.status = 502
    /\ issued[resp.tok].ok /\ now < issued[resp.tok].at + 60
    /\ ~ot_store[resp.tok].present

----------------------------------------------------------------------------
(* Properties of the upstream URLs of the file relay and the login, checked under
   SpecRelay *)

\* the text that follows prefix in s
after(s, prefix) == SubSeq(s, Len(prefix) + 1, Len(s))

\* C37: whatever the path of a request to the session-authenticated file relay, the
\* upstream request that carries the session's upstream token goes to the session's
\* base URL followed by a path that contains /webservice/pluginfile.php.
C37_TokenOnlyToPluginfile ==
    (dispatch.route = "proxy_file" /\ Sent) =>
        LET base == rstrip(dispatch.session.moodle_url, {"/"})
        IN  /\ outbound[1].params[TOKEN] = StrValue(dispatch.session.moodle_token)
            /\ startswith(outbound[1].url, base)
            /\ str_in(SLASH \o WEBSERVICE \o PLUGINFILE_PHP, after(outbound[1].url, base))

\* the URL names its scheme, http:// or https:// in any case
HasScheme(url) == startswith(lower(url), HTTP) \/ startswith(lower(url), HTTPS)

\* what the claim says of a normalizer: https:// is put before a URL that names no
\* scheme, a URL that names one keeps it, and a normalized URL is left as it is
SchemePreserving(normalized, url) ==
    /\ ~HasScheme(url) => startswith(normalized, HTTPS) /\ ~HasScheme(after(normalized, HTTPS))
    /\ HasScheme(url) => \E n \in {Len(HTTP), Len(HTTPS)} :
                             /\ SubSeq(url, 1, n) = SubSeq(normalized, 1, n)
                             /\ lower(SubSeq(url, 1, n)) \in {HTTP, HTTPS}

\* C38: for the base URL a login request gives, each of the two normalizers
\* (_normalize_base_url of the dispatcher, _normalize_moodle_url of the login) puts
\* https:// before a URL without scheme, keeps the scheme of a URL that has one, and
\* gives the same result when applied to its own result; and the base URL that a
\* successful login hands to create_session has no trailing slash.
C38_NormalizationIdempotent ==
    (/\ dispatch.route = "secure_login" /\ Sent
     /\ dispatch.moodle_url \notin {None, StrValue(<<>>)}) =>
        LET url == V(dispatch.moodle_url)
        IN  /\ SchemePreserving(normalize_base_url(url), url)
            /\ SchemePreserving(normalize_moodle_url(url), url)
            /\ normalize_base_url(normalize_base_url(url)) = normalize_base_url(url)
            /\ normalize_moodle_url(normalize_moodle_url(url)) = normalize_moodle_url(url)
            /\ dispatch.state = "Success" =>
                   /\ reply.created_with /= <<>>
                   /\ ~endswith(reply.created_with, SLASH)

----------------------------------------------------------------------------
(* Properties of the failed login, checked under SpecRoutes *)

\* the login ended without a token of upstream: upstream answered with an error
\* status, with a body that holds error or errorcode, with a body without token, or
\* the call failed
FailedLogin(r) ==
    /\ r.op = "login"
    /\ \/ r.exc \in {"HTTPStatusError", "RequestError"}
       \/ r.detail \in {"Authentication failed", "No token received from Moodle"}

\* C39: the step in which a login ends without a token of upstream writes no session
\* record, draws no session id, and its answer sets no session cookie and does not
\* report success.
C39_FailedLoginLeavesNoSession ==
    [][FailedLogin(resp') =>
          /\ session_store' = session_store
          /\ next_sid' = next_sid
          /\ created' = created
          /\ ~resp'.set_cookie
          /\ resp'.cookie = Garbage
          /\ ~resp'.success]_vars

\* C39 witness: while the store holds a session, a login for which upstream answered
\* without a token has ended; no cookie is set and the store holds what it held.
C39_Witness ==
    /\ FailedLogin(resp)
    /\ resp.detail = "No token received from Moodle"
    /\ ~resp.set_cookie
    /\ \E s \in SessionIds : session_store[s].present

====
